---- MODULE Spec2Model ----
(***************************************************************************)
(* Model of the game-sitemap-monitor repository: the site list, the        *)
(* per-site seen-set and the item store, and the operations import,        *)
(* discover, baseline and scan, in their two implementations:              *)
(*   "api"    - services/api.ts on the asynchronous key-value storage      *)
(*              (src/server/scanner.ts lines 82-320, src/unnamed/part_002) *)
(*   "server" - the express routes on the JSON-file storage                *)
(*              (src/unnamed/part_001 lines 93-391, src/server/storage.ts) *)
(*                                                                         *)
(* Strings that the code takes apart (URLs, domains) are sequences of      *)
(* tokens; a token is a run of characters that no operation splits.        *)
(* Timestamps are the single value Now; durationMs is left out of the      *)
(* summaries (it depends on the clock only).                               *)
(*                                                                         *)
(* Five specifications share the operations:                               *)
(*   Spec       - every operation runs to its end; requests may fail and   *)
(*                bodies may be no urlset                                  *)
(*   SpecFaults - storage calls may throw under an operation               *)
(*   SpecLoss   - the stored seen-set may be reset between operations      *)
(*   SpecReview - the stored items may be edited between operations        *)
(*   SpecSites  - two sites are imported and operated on in turn           *)
(* and four more look at one part each:                                    *)
(*   SpecConc   - two operations on two sites, interleaved at their awaits *)
(*   SpecDisk   - one save in its steps, with loads in between             *)
(*   SpecEnrich - one scan from its title fetches to its last write        *)
(*   SpecPure   - normalizeUrl, getProtocol, classifyUrl, discoverSitemap, *)
(*                fetchUrls, the item builder, a baseline and a pair of    *)
(*                imports applied to inputs drawn from bounded sets        *)
(***************************************************************************)
EXTENDS Integers, Sequences, FiniteSets, TLC

VARIABLES impl, sites, seen, items, reported, last,
          run,    \* SpecConc: the operations in flight, with their locals
          disk,   \* SpecDisk: the files and keys, and what loads returned
          probe   \* SpecPure: the last function applied, input and output

vars == <<impl, sites, seen, items, reported, last, run, disk, probe>>

\* the parts of the state that only one of the small specifications moves
aside == <<run, disk, probe>>

(***************************************************************************)
(* Token strings                                                           *)
(***************************************************************************)
SP == " "

RECURSIVE TrimStart(_)
TrimStart(s) == IF s # <<>> /\ Head(s) = SP THEN TrimStart(Tail(s)) ELSE s

RECURSIVE TrimEnd(_)
TrimEnd(s) ==
    IF s # <<>> /\ s[Len(s)] = SP THEN TrimEnd(SubSeq(s, 1, Len(s) - 1)) ELSE s

\* String.prototype.trim
Trim(s) == TrimEnd(TrimStart(s))

\* String.prototype.indexOf for a one-token needle; 0 stands for -1
IndexOf(s, t) ==
    IF \E k \in 1..Len(s) : s[k] = t
    THEN CHOOSE k \in 1..Len(s) : s[k] = t /\ \A j \in 1..(k - 1) : s[j] # t
    ELSE 0

EndsWith(s, t) == s # <<>> /\ s[Len(s)] = t

StartsWith(s, p) == Len(s) >= Len(p) /\ SubSeq(s, 1, Len(p)) = p

Includes(s, p) ==
    \E k \in 1..(Len(s) - Len(p) + 1) : SubSeq(s, k, k + Len(p) - 1) = p

Range(s) == {s[k] : k \in 1..Len(s)}

(***************************************************************************)
(* utils: getProtocol, normalizeDomain, normalizeUrl, hashUrl,              *)
(* classifyUrl, extractGameKeyword                                         *)
(***************************************************************************)
Digits == {"0", "1", "127"}

\* /^(?:[0-9]{1,3}\.){3}[0-9]{1,3}(?::[0-9]+)?$/ on tokens
IsIPv4(d) ==
    LET quad(s) == /\ Len(s) = 7
                   /\ \A k \in {1, 3, 5, 7} : s[k] \in Digits
                   /\ \A k \in {2, 4, 6} : s[k] = "."
    IN  \/ quad(d)
        \/ /\ Len(d) = 9
           /\ quad(SubSeq(d, 1, 7))
           /\ d[8] = ":"
           /\ d[9] \in Digits \cup {"3000"}

getProtocol(domain) ==
    LET isLocal == \/ StartsWith(domain, <<"localhost">>)
                   \/ StartsWith(domain, <<"127", ".", "0", ".", "0", ".", "1">>)
                   \/ StartsWith(domain, <<"0", ".", "0", ".", "0", ".", "0">>)
                   \/ Includes(domain, <<"localhost", ":">>)
                   \/ IsIPv4(domain)
    IN  IF isLocal THEN "http://" ELSE "https://"

\* toLowerCase on one token
LowerToken(t) ==
    CASE t = "HTTPS://" -> "https://"
      [] t = "HTTP://" -> "http://"
      [] t = "X.COM" -> "x.com"
      [] t \in {"Sitemap", "SITEMAP"} -> "sitemap"
      [] OTHER -> t

ToLower(s) == [k \in 1..Len(s) |-> LowerToken(s[k])]

normalizeDomain(input) ==
    LET lower == ToLower(Trim(input))
        noScheme == IF lower # <<>> /\ Head(lower) \in {"http://", "https://"}
                    THEN Tail(lower) ELSE lower
    IN  IF EndsWith(noScheme, "/")
        THEN SubSeq(noScheme, 1, Len(noScheme) - 1)
        ELSE noScheme

normalizeUrl(url) ==
    LET clean == Trim(url)
        anchorIdx == IndexOf(clean, "#")
        cut == IF anchorIdx # 0 THEN SubSeq(clean, 1, anchorIdx - 1) ELSE clean
    IN  IF EndsWith(cut, "/") THEN SubSeq(cut, 1, Len(cut) - 1) ELSE cut

\* SHA-1 of the string as hex, taken as collision free: the digest of a
\* string is a value of its own kind that determines the string.
hashUrl(url) == <<"sha1", url>>

Origins == {"https://g.io", "http://g.io"}

\* new URL(url): throws unless the string starts with a scheme and a host
Parseable(url) == url # <<>> /\ Head(url) \in Origins

\* new URL(url).pathname: "/" when the URL has no path
Pathname(url) == IF Len(url) = 1 THEN <<"/">> ELSE Tail(url)

\* classifyUrl with the tag rule tried before the category rule
classifyTagFirst(url) ==
    IF ~Parseable(url) THEN "unknown"
    ELSE LET path == Pathname(url)
         IN  IF path = <<"/">> \/ path = <<>> THEN "home"
             ELSE IF StartsWith(path, <<"/", "t", "/">>)
                     \/ Includes(path, <<"/", "tag", "/">>) THEN "tag"
             ELSE IF StartsWith(path, <<"/", "c", "/">>)
                     \/ Includes(path, <<"/", "category", "/">>) THEN "category"
             ELSE "game"

classifyUrl(url) ==
    IF ~Parseable(url) THEN "unknown"
    ELSE LET path == Pathname(url)
         IN  IF path = <<"/">> \/ path = <<>> THEN "home"
             ELSE IF StartsWith(path, <<"/", "c", "/">>)
                     \/ Includes(path, <<"/", "category", "/">>) THEN "category"
             ELSE IF StartsWith(path, <<"/", "t", "/">>)
                     \/ Includes(path, <<"/", "tag", "/">>) THEN "tag"
             ELSE "game"

\* the tokens after the last "/" of s (the last element of s.split('/'))
RECURSIVE LastSegment(_)
LastSegment(s) ==
    IF s = <<>> THEN <<>>
    ELSE IF s[Len(s)] = "/" THEN <<>>
    ELSE LastSegment(SubSeq(s, 1, Len(s) - 1)) \o <<s[Len(s)]>>

\* split('/').filter(p => p.length > 0), last element
RECURSIVE LastNonEmptySegment(_)
LastNonEmptySegment(s) ==
    IF s = <<>> THEN <<>>
    ELSE IF s[Len(s)] = "/" THEN LastNonEmptySegment(SubSeq(s, 1, Len(s) - 1))
    ELSE LastSegment(s)

extractGameKeyword(url) ==
    IF ~Parseable(url) THEN <<>>
    ELSE LET slug == LastNonEmptySegment(Pathname(url))
             spaced == [k \in 1..Len(slug) |->
                           IF slug[k] \in {"-", "_"} THEN SP ELSE slug[k]]
         IN  ToLower(Trim(spaced))

(***************************************************************************)
(* Records                                                                 *)
(***************************************************************************)
Now == "now"
Null == "null"
Undefined == "undefined"

\* ScanSummary; the value null of Site.lastResult is NoResult
NoResult ==
    [outcome |-> Null, parsedCount |-> 0, newOrInsertedCount |-> 0,
     error |-> Undefined, sampleUrls |-> <<>>]

FailureSummary(message) ==
    [outcome |-> "failure", parsedCount |-> 0, newOrInsertedCount |-> 0,
     error |-> message, sampleUrls |-> <<>>]

SuccessSummary(parsed, count, sample) ==
    [outcome |-> "success", parsedCount |-> parsed, newOrInsertedCount |-> count,
     error |-> Undefined, sampleUrls |-> sample]

NewSite(id, domain) ==
    [id |-> id, domain |-> domain,
     sitemapUrl |-> <<getProtocol(domain)>> \o domain \o <<"/", "sitemap.xml">>,
     status |-> "unknown", errorMessage |-> "", baselineReady |-> FALSE,
     baselineAt |-> Null, lastScanAt |-> Null, seenCount |-> 0,
     lastNewFound |-> 0, lastResult |-> NoResult]

\* sites.findIndex(s => s.id === id); 0 stands for -1
FindIndex(list, id) ==
    IF \E k \in 1..Len(list) : list[k].id = id
    THEN CHOOSE k \in 1..Len(list) :
             list[k].id = id /\ \A j \in 1..(k - 1) : list[j].id # id
    ELSE 0

(***************************************************************************)
(* Seen-set: siteId -> (hash -> url), as one stored object                 *)
(***************************************************************************)
EmptyMap == <<>>

\* obj[key] = value
Put(m, key, value) ==
    [x \in DOMAIN m \cup {key} |-> IF x = key THEN value ELSE m[x]]

\* a test that finds nothing
NeverPresent(m, hash) == FALSE

\* the test !obj[hash] of the loops: a missing key and an empty string are
\* both falsy
Present(m, hash) == hash \in DOMAIN m /\ m[hash] # <<>>

\* Object.keys(obj).length
SizeOf(m) == Cardinality(DOMAIN m)

\* a scan that starts from no entries whatever is stored
SeenForgotten(store, id) == EmptyMap

\* the persisted seen-set of a site (no key: no entries)
SeenOf(store, id) == IF id \in DOMAIN store THEN store[id] ELSE EmptyMap

(***************************************************************************)
(* fetchSitemapUrls                                                        *)
(* A response is [net, status, root, entries]: net = "err" when the        *)
(* request itself fails, root the root element of the parsed body,         *)
(* entries the <url> children, each a loc string or NoLoc.                 *)
(***************************************************************************)
NoLoc == <<>>

HttpOk(resp) == resp.status \in 200..299

\* the message of the error thrown for a failed request, per implementation
FetchError(variant, resp) ==
    IF variant = "api"
    THEN IF resp.net = "err" THEN "Failed to fetch"
         ELSE "HTTP " \o ToString(resp.status)
    ELSE IF resp.net = "err" THEN "Network Error"
         ELSE "Request failed with status code " \o ToString(resp.status)

\* xmlData.urlset is truthy: an element with no children parses to ''
HasUrlset(resp) == resp.root = "urlset" /\ resp.entries # <<>>

\* a list form that keeps the entries without a location
KeepLoc(entries) == entries

RECURSIVE FilterLoc(_)
FilterLoc(entries) ==
    IF entries = <<>> THEN <<>>
    ELSE IF Head(entries) = NoLoc THEN FilterLoc(Tail(entries))
    ELSE <<Head(entries)>> \o FilterLoc(Tail(entries))

\* [ok, stage, urls, error]: stage is where it threw
fetchSitemapUrls(variant, resp) ==
    IF resp.net = "err" \/ ~HttpOk(resp)
    THEN [ok |-> FALSE, stage |-> "fetch", urls |-> <<>>,
          error |-> FetchError(variant, resp)]
    ELSE IF ~HasUrlset(resp)
    THEN [ok |-> FALSE, stage |-> "parse", urls |-> <<>>,
          error |-> "Not a urlset sitemap"]
    ELSE [ok |-> TRUE, stage |-> "none", urls |-> FilterLoc(resp.entries),
          error |-> Undefined]

(***************************************************************************)
(* Storage faults.  An operation runs with one store failing or none:      *)
(* "seenRead" makes loadSeen throw, "seenWrite" saveSeen, "itemsWrite" the *)
(* write of appendNewItems, "sitesWrite" every saveSites of the operation  *)
(* (the one of the failure handler included, so that the exception leaves  *)
(* the operation: outcome "crashed"), "sitesWriteOnce" the first saveSites *)
(* of the operation only (the one of the failure handler succeeds).        *)
(***************************************************************************)
BaselineFaults == {"seenRead", "seenWrite", "sitesWrite", "sitesWriteOnce"}

ScanFaults == BaselineFaults \cup {"itemsWrite"}

\* the saveSites at the end of the try block throws
SitesWriteFails(fault) == fault \in {"sitesWrite", "sitesWriteOnce"}

\* the fault showed: the operation reached the failing call
Manifest(r, fault) ==
    CASE fault = "seenRead" -> r.stage = "loadSeen"
      [] fault = "seenWrite" -> r.stage = "saveSeen"
      [] fault = "itemsWrite" -> r.stage = "appendNewItems"
      [] fault = "sitesWrite" -> r.outcome = "crashed"
      [] fault = "sitesWriteOnce" -> r.stage = "saveSites" /\ r.outcome = "failed"
      [] OTHER -> FALSE

ReadError == "read error"
WriteError == "write error"

\* a catch block that records nothing
FailedUnrecorded(site, message) == site

\* a catch block that also resets the counters
FailedResetsCounts(site, message) ==
    [site EXCEPT !.status = "failed",
                 !.errorMessage = message,
                 !.lastResult = FailureSummary(message),
                 !.seenCount = 0,
                 !.lastNewFound = 0]

\* a catch block that takes the baseline back
FailedUnready(site, message) ==
    [site EXCEPT !.status = "failed",
                 !.errorMessage = message,
                 !.baselineReady = FALSE,
                 !.lastResult = FailureSummary(message)]

\* the catch block of baseline and scan, on the site object as it is then
Failed(site, message) ==
    [site EXCEPT !.status = "failed",
                 !.errorMessage = message,
                 !.lastResult = FailureSummary(message)]

\* saveSites(sites) of the catch block
SaveFailed(list, k, site, message, fault) ==
    IF fault = "sitesWrite" THEN list
    ELSE [list EXCEPT ![k] = Failed(site, message)]

FailOutcome(fault) == IF fault = "sitesWrite" THEN "crashed" ELSE "failed"

(***************************************************************************)
(* baseline                                                                *)
(***************************************************************************)
SampleCap == 5

\* a loop whose sample takes only the URLs it inserts
RECURSIVE BaselineLoopSamplesNew(_, _)
BaselineLoopSamplesNew(urls, st) ==
    IF urls = <<>> THEN st
    ELSE LET url == normalizeUrl(Head(urls))
             hash == hashUrl(url)
             isNew == ~Present(st.seen, hash)
         IN  BaselineLoopSamplesNew(Tail(urls),
                 [seen |-> IF isNew THEN Put(st.seen, hash, url) ELSE st.seen,
                  added |-> IF isNew THEN st.added + 1 ELSE st.added,
                  sample |-> IF isNew /\ Len(st.sample) < SampleCap
                             THEN Append(st.sample, url) ELSE st.sample])

\* the loop over urls; st = [seen, added, sample]
RECURSIVE BaselineLoop(_, _)
BaselineLoop(urls, st) ==
    IF urls = <<>> THEN st
    ELSE LET url == normalizeUrl(Head(urls))
             hash == hashUrl(url)
             isNew == ~Present(st.seen, hash)
         IN  BaselineLoop(Tail(urls),
                 [seen |-> IF isNew THEN Put(st.seen, hash, url) ELSE st.seen,
                  added |-> IF isNew THEN st.added + 1 ELSE st.added,
                  sample |-> IF Len(st.sample) < SampleCap
                             THEN Append(st.sample, url) ELSE st.sample])

\* a summary that counts every parsed URL as inserted
BaselineStatsParsed(site, urls, loop) ==
    [site EXCEPT !.baselineReady = TRUE,
                 !.baselineAt = Now,
                 !.status = "ok",
                 !.errorMessage = "",
                 !.seenCount = SizeOf(loop.seen),
                 !.lastResult = SuccessSummary(Len(urls), Len(urls), loop.sample)]

BaselineStats(site, urls, loop) ==
    [site EXCEPT !.baselineReady = TRUE,
                 !.baselineAt = Now,
                 !.status = "ok",
                 !.errorMessage = "",
                 !.seenCount = SizeOf(loop.seen),
                 !.lastResult = SuccessSummary(Len(urls), loop.added, loop.sample)]

\* The whole operation on the stored site list and seen-set:
\* [sites, seen, outcome, stage, urls, added, trace]
RunBaseline(variant, list, store, id, resp, fault) ==
    LET k == FindIndex(list, id)
        site == list[k]
        f == fetchSitemapUrls(variant, resp)
        seenData == IF id \in DOMAIN store THEN store ELSE Put(store, id, EmptyMap)
        loop == BaselineLoop(f.urls, [seen |-> seenData[id], added |-> 0,
                                      sample |-> <<>>])
        saved == Put(seenData, id, loop.seen)
        stats == BaselineStats(site, f.urls, loop)
        fail(stage, message, tr) ==
            [sites |-> SaveFailed(list, k, site, message, fault), seen |-> store,
             outcome |-> FailOutcome(fault), stage |-> stage, urls |-> <<>>,
             added |-> 0, trace |-> tr \o <<"saveSites">>]
    IN  IF k = 0
        THEN [sites |-> list, seen |-> store, outcome |-> "notfound",
              stage |-> "lookup", urls |-> <<>>, added |-> 0,
              trace |-> <<"loadSites">>]
        ELSE IF ~f.ok
        THEN fail(f.stage, f.error, <<"loadSites", "fetch">>)
        ELSE IF fault = "seenRead"
        THEN fail("loadSeen", ReadError, <<"loadSites", "fetch", "loadSeen">>)
        ELSE IF fault = "seenWrite"
        THEN fail("saveSeen", WriteError,
                  <<"loadSites", "fetch", "loadSeen", "saveSeen">>)
        ELSE IF SitesWriteFails(fault)
        THEN [sites |-> SaveFailed(list, k, stats, WriteError, fault),
              seen |-> saved, outcome |-> FailOutcome(fault),
              stage |-> "saveSites",
              urls |-> <<>>, added |-> 0,
              trace |-> <<"loadSites", "fetch", "loadSeen", "saveSeen",
                          "saveSites", "saveSites">>]
        ELSE [sites |-> [list EXCEPT ![k] = stats], seen |-> saved,
              outcome |-> "ok", stage |-> "none", urls |-> f.urls,
              added |-> loop.added,
              trace |-> <<"loadSites", "fetch", "loadSeen", "saveSeen",
                          "saveSites">>]

(***************************************************************************)
(* Item store                                                              *)
(***************************************************************************)
\* the title the page of a URL carries (og:title or <title>), if any
PageTitle(url) ==
    IF classifyUrl(url) = "game" THEN "Page title" ELSE Undefined

\* a failed title request that gives the empty string
fetchPageTitleEmpty(url, web) == IF web = "down" THEN "" ELSE PageTitle(url)

\* fetchPageTitle: every failure gives undefined; web = "down" is a request
\* that fails (timeout, network error, non-200)
fetchPageTitle(url, web) == IF web = "down" THEN Undefined ELSE PageTitle(url)

\* uuid(): identifiers not in the store, in the order they are drawn
MaxItemId(list) ==
    IF list = <<>> THEN 0
    ELSE CHOOSE n \in {list[k].id : k \in 1..Len(list)} :
             \A j \in 1..Len(list) : list[j].id <= n

\* every new item goes to review
ReviewStatusPending(classification) == "pending"

\* classification === 'game' ? 'pending' : 'not_game'
ReviewStatusOf(classification) ==
    IF classification = "game" THEN "pending" ELSE "not_game"

\* an item built without its final keyword
BuildItemUnkeyed(site, url, id, web) ==
    [id |-> id, siteId |-> site.id, domain |-> site.domain, url |-> url,
     keywordAuto |-> extractGameKeyword(url),
     keywordFinal |-> <<>>,
     reviewStatus |-> ReviewStatusOf(classifyUrl(url)),
     urlType |-> classifyUrl(url),
     title |-> fetchPageTitle(url, web),
     discoveredAt |-> Now,
     sourceSitemapUrl |-> site.sitemapUrl]

BuildItem(site, url, id, web) ==
    [id |-> id, siteId |-> site.id, domain |-> site.domain, url |-> url,
     keywordAuto |-> extractGameKeyword(url),
     keywordFinal |-> extractGameKeyword(url),
     reviewStatus |-> ReviewStatusOf(classifyUrl(url)),
     urlType |-> classifyUrl(url),
     title |-> fetchPageTitle(url, web),
     discoveredAt |-> Now,
     sourceSitemapUrl |-> site.sitemapUrl]

\* the key the deduplication of appendNewItems compares
ItemKey(item) == <<item.siteId, hashUrl(item.url)>>

\* an append that does not look at what is stored
ToAddAll(current, batch) == batch

\* items.filter(i => !existingSet.has(key))
ToAdd(current, batch) ==
    LET existing == {ItemKey(current[k]) : k \in 1..Len(current)}
    IN  SelectSeq(batch, LAMBDA i : ItemKey(i) \notin existing)

\* an append that puts the batch in front of what is stored
prependNewItems(current, batch) == ToAdd(current, batch) \o current

appendNewItems(current, batch) == current \o ToAdd(current, batch)

(***************************************************************************)
(* scan                                                                    *)
(***************************************************************************)
\* a loop that does not mark the URLs it has just found
RECURSIVE ScanLoopUnmarked(_, _)
ScanLoopUnmarked(urls, st) ==
    IF urls = <<>> THEN st
    ELSE LET url == normalizeUrl(Head(urls))
         IN  ScanLoopUnmarked(Tail(urls),
                 [seen |-> st.seen,
                  newUrls |-> IF ~Present(st.seen, hashUrl(url))
                              THEN Append(st.newUrls, url) ELSE st.newUrls])

\* the loop over urls; st = [seen, newUrls]
RECURSIVE ScanLoop(_, _)
ScanLoop(urls, st) ==
    IF urls = <<>> THEN st
    ELSE LET url == normalizeUrl(Head(urls))
             hash == hashUrl(url)
             isNew == ~Present(st.seen, hash)
         IN  ScanLoop(Tail(urls),
                 [seen |-> IF isNew THEN Put(st.seen, hash, url) ELSE st.seen,
                  newUrls |-> IF isNew THEN Append(st.newUrls, url)
                              ELSE st.newUrls])

\* the loop that writes the hashes of the new items into siteSeen
RECURSIVE MergeItems(_, _)
MergeItems(siteSeen, batch) ==
    IF batch = <<>> THEN siteSeen
    ELSE MergeItems(Put(siteSeen, hashUrl(Head(batch).url), Head(batch).url),
                    Tail(batch))

\* The object saveSeen writes.  api: seenData[site.id] = siteSeen.  server:
\* seenData as loaded, which holds siteSeen only if the key was there.
SeenToSave(variant, store, id, siteSeen) ==
    IF variant = "api" \/ id \in DOMAIN store
    THEN Put(store, id, siteSeen)
    ELSE store

\* newItemsFound.slice(0, 5).map(i => i.url)
SampleOf(batch) ==
    [k \in 1..(IF Len(batch) < SampleCap THEN Len(batch) ELSE SampleCap) |->
        batch[k].url]

ScanStats(site, urls, siteSeen, batch) ==
    [site EXCEPT !.lastScanAt = Now,
                 !.status = "ok",
                 !.seenCount = SizeOf(siteSeen),
                 !.lastNewFound = Len(batch),
                 !.lastResult = SuccessSummary(Len(urls), Len(batch),
                                               SampleOf(batch))]

\* the scan without its precondition
BaselineNotChecked(site) == FALSE

\* if (!site.baselineReady) ...
BaselineNotReady(site) == ~site.baselineReady

\* The whole operation:
\* [sites, seen, items, outcome, stage, urls, newItems, trace]
RunScan(variant, list, store, stored, id, resp, web, fault) ==
    LET k == FindIndex(list, id)
        site == list[k]
        f == fetchSitemapUrls(variant, resp)
        loop == ScanLoop(f.urls, [seen |-> SeenOf(store, id), newUrls |-> <<>>])
        base == MaxItemId(stored)
        batch == [n \in 1..Len(loop.newUrls) |->
                     BuildItem(site, loop.newUrls[n], base + n, web)]
        siteSeen == IF variant = "api" THEN MergeItems(loop.seen, batch)
                    ELSE loop.seen
        saved == IF batch # <<>> THEN SeenToSave(variant, store, id, siteSeen)
                 ELSE store
        appended == IF batch # <<>> THEN appendNewItems(stored, batch) ELSE stored
        writes == IF batch # <<>> THEN <<"saveSeen", "appendNewItems">> ELSE <<>>
        stats == ScanStats(site, f.urls, siteSeen, batch)
        head == <<"loadSites", "fetch", "loadSeen">>
        out(lst, sn, it, outcome, stage, found, tr) ==
            [sites |-> lst, seen |-> sn, items |-> it, outcome |-> outcome,
             stage |-> stage,
             urls |-> IF outcome = "ok" THEN f.urls ELSE <<>>,
             newItems |-> found, trace |-> tr]
        fail(st, sn, it, stage, message, tr) ==
            out(SaveFailed(list, k, st, message, fault), sn, it,
                FailOutcome(fault), stage, <<>>, tr \o <<"saveSites">>)
    IN  IF k = 0
        THEN out(list, store, stored, "notfound", "lookup", <<>>, <<"loadSites">>)
        ELSE IF BaselineNotReady(site)
        THEN out(list, store, stored, "precondition", "precondition", <<>>,
                 <<"loadSites">>)
        ELSE IF ~f.ok
        THEN fail(site, store, stored, f.stage, f.error, <<"loadSites", "fetch">>)
        ELSE IF fault = "seenRead"
        THEN fail(site, store, stored, "loadSeen", ReadError, head)
        ELSE IF fault = "seenWrite" /\ batch # <<>>
        THEN fail(site, store, stored, "saveSeen", WriteError,
                  head \o <<"saveSeen">>)
        ELSE IF fault = "itemsWrite" /\ batch # <<>> /\ ToAdd(stored, batch) # <<>>
        THEN fail(site, saved, stored, "appendNewItems", WriteError,
                  head \o writes)
        ELSE IF SitesWriteFails(fault)
        THEN fail(stats, saved, appended, "saveSites", WriteError,
                  head \o writes \o <<"saveSites">>)
        ELSE out([list EXCEPT ![k] = stats], saved, appended, "ok", "none",
                 batch, head \o writes \o <<"saveSites">>)

(***************************************************************************)
(* discoverSitemap                                                         *)
(* robots is [net, status, lines], lines a sequence of token strings.      *)
(***************************************************************************)
\* line.trim().toLowerCase().startsWith('sitemap:')
IsSitemapLine(line) == StartsWith(ToLower(Trim(line)), <<"sitemap", ":">>)

\* line.split(/:(.+)/)[1]: what follows the first colon; undefined if nothing
AfterColon(line) == SubSeq(line, IndexOf(line, ":") + 1, Len(line))

HasScheme(s) == s # <<>> /\ LowerToken(Head(s)) \in {"http://", "https://"}

ResolveFound(foundUrl, protocol, domain) ==
    IF HasScheme(foundUrl) THEN foundUrl
    ELSE <<protocol>> \o domain \o
         (IF StartsWith(foundUrl, <<"/">>) THEN foundUrl ELSE <<"/">> \o foundUrl)

\* the loop over the lines of robots.txt; a directive with nothing after
\* its colon throws (undefined.trim()), which leaves the default
RECURSIVE RobotsLoop(_, _, _, _)
RobotsLoop(lines, protocol, domain, default) ==
    IF lines = <<>> THEN default
    ELSE IF ~IsSitemapLine(Head(lines))
    THEN RobotsLoop(Tail(lines), protocol, domain, default)
    ELSE IF AfterColon(Head(lines)) = <<>> THEN default
    ELSE IF Trim(AfterColon(Head(lines))) = <<>>
    THEN RobotsLoop(Tail(lines), protocol, domain, default)
    ELSE ResolveFound(Trim(AfterColon(Head(lines))), protocol, domain)

\* a body that is read whatever the request gave
RobotsReadAlways(variant, robots) == TRUE

\* server: robotsRes.status === 200 (axios with validateStatus always true);
\* api: res.ok
RobotsRead(variant, robots) ==
    /\ robots.net = "ok"
    /\ IF variant = "server" THEN robots.status = 200 ELSE HttpOk(robots)

\* [url, status, error]
discoverSitemap(variant, domain, robots, resp) ==
    LET protocol == getProtocol(domain)
        default == <<protocol>> \o domain \o <<"/", "sitemap.xml">>
        target == IF RobotsRead(variant, robots)
                  THEN RobotsLoop(robots.lines, protocol, domain, default)
                  ELSE default
        thrown == \/ resp.net = "err"
                  \/ variant = "server" /\ ~HttpOk(resp)
    IN  IF thrown
        THEN [url |-> target, status |-> "failed",
              error |-> FetchError(variant, resp)]
        ELSE IF (variant = "server" /\ resp.status # 200)
                \/ (variant = "api" /\ ~HttpOk(resp))
        THEN [url |-> target, status |-> "failed",
              error |-> "HTTP " \o ToString(resp.status)]
        ELSE IF HasUrlset(resp)
        THEN [url |-> target, status |-> "ok", error |-> Undefined]
        ELSE IF resp.root = "sitemapindex" /\ resp.entries # <<>>
        THEN [url |-> target, status |-> "unsupported",
              error |-> "Type: sitemapindex"]
        ELSE [url |-> target, status |-> "unsupported",
              error |-> "Unknown XML structure"]

\* result.error || ''
OrEmpty(error) == IF error = Undefined THEN "" ELSE error

\* a discover that starts the site over
RunDiscoverResetting(variant, list, id, robots, resp, fault) ==
    LET k == FindIndex(list, id)
        result == discoverSitemap(variant, list[k].domain, robots, resp)
    IN  IF k = 0
        THEN [sites |-> list, outcome |-> "notfound"]
        ELSE [sites |-> [list EXCEPT ![k].sitemapUrl = result.url,
                                     ![k].status = result.status,
                                     ![k].errorMessage = OrEmpty(result.error),
                                     ![k].baselineReady = FALSE],
              outcome |-> "ok"]

RunDiscover(variant, list, id, robots, resp, fault) ==
    LET k == FindIndex(list, id)
        result == discoverSitemap(variant, list[k].domain, robots, resp)
    IN  IF k = 0
        THEN [sites |-> list, outcome |-> "notfound"]
        ELSE IF fault = "sitesWrite"
        THEN [sites |-> list, outcome |-> "crashed"]
        ELSE [sites |-> [list EXCEPT ![k].sitemapUrl = result.url,
                                     ![k].status = result.status,
                                     ![k].errorMessage = OrEmpty(result.error)],
              outcome |-> "ok"]

(***************************************************************************)
(* importSites                                                             *)
(***************************************************************************)
\* `site_${uuid()}`: an identifier no stored site has
FreshSiteId(list) == Len(list) + 1

\* an import that writes a new record over the one of a domain it knows
RECURSIVE ImportLoopOverwriting(_, _)
ImportLoopOverwriting(domains, list) ==
    IF domains = <<>> THEN list
    ELSE LET cleanDomain == normalizeDomain(Head(domains))
             known == {k \in 1..Len(list) : list[k].domain = cleanDomain}
         IN  IF Head(domains) = <<>> \/ cleanDomain = <<>>
             THEN ImportLoopOverwriting(Tail(domains), list)
             ELSE IF known = {}
             THEN ImportLoopOverwriting(Tail(domains),
                      Append(list, NewSite(FreshSiteId(list), cleanDomain)))
             ELSE ImportLoopOverwriting(Tail(domains),
                      [k \in 1..Len(list) |->
                          IF k \in known THEN NewSite(list[k].id, cleanDomain)
                          ELSE list[k]])

RECURSIVE ImportLoop(_, _)
ImportLoop(domains, list) ==
    IF domains = <<>> THEN list
    ELSE LET cleanDomain == normalizeDomain(Head(domains))
             existing == {list[k].domain : k \in 1..Len(list)}
         IN  IF Head(domains) # <<>> /\ cleanDomain # <<>>
                /\ cleanDomain \notin existing
             THEN ImportLoop(Tail(domains),
                             Append(list, NewSite(FreshSiteId(list), cleanDomain)))
             ELSE ImportLoop(Tail(domains), list)

RunImport(list, domains, fault) ==
    IF fault = "sitesWrite" THEN [sites |-> list, outcome |-> "crashed"]
    ELSE [sites |-> ImportLoop(domains, list), outcome |-> "ok"]

(***************************************************************************)
(* Inputs                                                                  *)
(* Every location served is an absolute URL, so that no normalized URL is  *)
(* the empty string; one site is monitored.                                *)
(***************************************************************************)
Origin == "https://g.io"

\* the pages a monitored site lists, in the order of its sitemap: a game
\* page written with a trailing slash, a category page with a fragment, a
\* tag page after a blank, a game page, the home page
Catalogue ==
    << <<Origin, "/", "a", "/">>,
       <<Origin, "/", "c", "/", "b", "#", "top">>,
       <<SP, Origin, "/", "t", "/", "c">>,
       <<Origin, "/", "d", "-", "x">>,
       <<Origin, "/">> >>

\* the first page of the catalogue, written without its trailing slash
Mirror == <<Origin, "/", "a">>

\* longest sitemap served
MaxLen == 4

Prefix(n) == SubSeq(Catalogue, 1, n)

\* the sitemaps served: the catalogue as it grows, one that lists a page
\* under two spellings, and one whose first entry has no <loc>
Sitemaps ==
    {Prefix(n) : n \in 1..(IF MaxLen < Len(Catalogue) THEN MaxLen
                           ELSE Len(Catalogue))}
        \cup {<<Catalogue[1], Mirror>>, <<NoLoc, Catalogue[2]>>}

Urlset(entries) ==
    [net |-> "ok", status |-> 200, root |-> "urlset", entries |-> entries]

NetworkDown == [net |-> "err", status |-> 0, root |-> "none", entries |-> <<>>]

NotFound404 == [net |-> "ok", status |-> 404, root |-> "html", entries |-> <<>>]

SitemapIndex ==
    [net |-> "ok", status |-> 200, root |-> "sitemapindex",
     entries |-> <<Mirror>>]

\* what the sitemap URL of a site answers to baseline and scan
Responses == {Urlset(d) : d \in Sitemaps} \cup {NetworkDown, SitemapIndex}

\* longest sitemap served while a store fails or is lost
MaxShort == 2

ShortResponses ==
    {Urlset(d) : d \in {x \in Sitemaps : Len(x) <= MaxShort}}
        \cup {NetworkDown, NotFound404}

\* what the candidate URL of discover answers
Located == {Urlset(<<Catalogue[1]>>), SitemapIndex, NotFound404}

RobotsFiles ==
    {[net |-> "ok", status |-> 200,
      lines |-> << <<"User-agent", ":", SP, "*">>,
                   <<"Sitemap", ":", SP, "/", "sitemap.xml">> >>]}

\* the two domains imported where two sites are operated on
ConcDomains == << <<"x.com">>, <<"y.com">> >>

DomainLists ==
    { << <<SP, "HTTPS://", "X.COM", "/">> >>,
      << <<"x.com">>, <<>> >> }

(***************************************************************************)
(* State                                                                   *)
(* impl: the implementation running.  sites, seen, items: the three stored *)
(* objects.  reported: per site, the URLs that successful scans returned   *)
(* in newItems.  last: what the last operation was and returned, and,      *)
(* when it and the one before it were both successful runs on the same     *)
(* site, what that one was (prev, prevUrls, prevEmpty, prevAdded,          *)
(* prevSeenCount); edit: the item id and the body of the last update.      *)
(***************************************************************************)
\* the operation ran without a storage fault, or with one that showed
Injected(r, fault) == fault = "none" \/ Manifest(r, fault)

\* no item was updated
NoEdit ==
    [item |-> 0,
     body |-> [keys |-> {}, keywordFinal |-> <<>>, reviewStatus |-> "none"]]

NoOp ==
    [op |-> "none", id |-> 0, outcome |-> "none", stage |-> "none",
     urls |-> <<>>, newUrls |-> <<>>, added |-> 0, trace |-> <<>>,
     emptyBefore |-> FALSE, prev |-> "none", prevUrls |-> <<>>,
     prevEmpty |-> FALSE, prevAdded |-> 0, prevSeenCount |-> 0,
     edit |-> NoEdit]

NoProbe ==
    [fn |-> "none", variant |-> "none", input |-> <<>>, output |-> <<>>,
     done |-> FALSE]

Init ==
    /\ impl \in {"api", "server"}
    /\ sites = <<>>
    /\ seen = EmptyMap
    /\ items = <<>>
    /\ reported = EmptyMap
    /\ last = NoOp
    /\ run = <<>>
    /\ disk = <<>>
    /\ probe = NoProbe

ReportedOf(id) == IF id \in DOMAIN reported THEN reported[id] ELSE {}

UrlsOf(batch) == [k \in 1..Len(batch) |-> batch[k].url]

\* the record of an operation that follows a successful run on the same site
Follows(now, id, outcome) ==
    IF outcome = "ok" /\ last.outcome = "ok" /\ last.id = id
       /\ last.op \in {"baseline", "scan"}
    THEN [now EXCEPT !.prev = last.op, !.prevUrls = last.urls,
                     !.prevEmpty = last.emptyBefore,
                     !.prevAdded = sites[FindIndex(sites, id)]
                                       .lastResult.newOrInsertedCount,
                     !.prevSeenCount = sites[FindIndex(sites, id)].seenCount]
    ELSE now

Import(domains, fault) ==
    \E r \in {RunImport(sites, domains, fault)} :
        /\ Injected(r, fault)
        /\ sites' = r.sites
        /\ last' = [NoOp EXCEPT !.op = "import", !.outcome = r.outcome,
                                !.trace = <<"loadSites", "saveSites">>]
        /\ UNCHANGED <<impl, seen, items, reported, aside>>

Discover(id, robots, resp, fault) ==
    \E r \in {RunDiscover(impl, sites, id, robots, resp, fault)} :
        /\ Injected(r, fault)
        /\ sites' = r.sites
        /\ last' = [NoOp EXCEPT !.op = "discover", !.id = id,
                                !.outcome = r.outcome]
        /\ UNCHANGED <<impl, seen, items, reported, aside>>

Baseline(id, resp, fault) ==
    \E r \in {RunBaseline(impl, sites, seen, id, resp, fault)} :
        /\ Injected(r, fault)
        /\ sites' = r.sites
        /\ seen' = r.seen
        /\ last' = Follows([NoOp EXCEPT
                                !.op = "baseline", !.id = id,
                                !.outcome = r.outcome, !.stage = r.stage,
                                !.urls = r.urls, !.added = r.added,
                                !.trace = r.trace,
                                !.emptyBefore = (SeenOf(seen, id) = EmptyMap)],
                           id, r.outcome)
        /\ UNCHANGED <<impl, items, reported, aside>>

Scan(id, resp, web, fault) ==
    \E r \in {RunScan(impl, sites, seen, items, id, resp, web, fault)} :
        /\ Injected(r, fault)
        /\ sites' = r.sites
        /\ seen' = r.seen
        /\ items' = r.items
        /\ reported' = IF r.outcome = "ok"
                       THEN Put(reported, id,
                                ReportedOf(id) \cup Range(UrlsOf(r.newItems)))
                       ELSE reported
        /\ last' = Follows([NoOp EXCEPT
                                !.op = "scan", !.id = id, !.outcome = r.outcome,
                                !.stage = r.stage, !.urls = r.urls,
                                !.newUrls = UrlsOf(r.newItems),
                                !.added = Len(r.newItems), !.trace = r.trace,
                                !.emptyBefore = (SeenOf(seen, id) = EmptyMap)],
                           id, r.outcome)
        /\ UNCHANGED <<impl, aside>>

\* The stored seen-set is gone and reads as empty: the file was removed and
\* ensureDataFilesExist wrote '{}' again, or the browser storage was cleared
\* and get returns its default.
SeenLost ==
    /\ seen # EmptyMap
    /\ seen' = EmptyMap
    /\ last' = [NoOp EXCEPT !.op = "lost"]
    /\ UNCHANGED <<impl, sites, items, reported, aside>>

\* the sites stored
KnownIds == {sites[k].id : k \in 1..Len(sites)}

\* the operations, each running to its end without a storage fault
Next ==
    \/ \E domains \in DomainLists : Import(domains, "none")
    \/ \E id \in KnownIds, robots \in RobotsFiles, resp \in Located :
           Discover(id, robots, resp, "none")
    \/ \E id \in KnownIds, resp \in Responses : Baseline(id, resp, "none")
    \/ \E id \in KnownIds, resp \in Responses : Scan(id, resp, "up", "none")

Spec == Init /\ [][Next]_vars

\* the operations with stores that may fail under them, a candidate URL
\* that is not found and pages that do not answer
NextFaults ==
    \/ \E domains \in DomainLists, fault \in {"none", "sitesWrite"} :
           Import(domains, fault)
    \/ \E id \in KnownIds, robots \in RobotsFiles,
          fault \in {"none", "sitesWrite"} :
           Discover(id, robots, NotFound404, fault)
    \/ \E id \in KnownIds, resp \in ShortResponses,
          fault \in BaselineFaults \cup {"none"} :
           Baseline(id, resp, fault)
    \/ \E id \in KnownIds, resp \in ShortResponses,
          fault \in ScanFaults \cup {"none"} :
           Scan(id, resp, "down", fault)

SpecFaults == Init /\ [][NextFaults]_vars

\* the operations with a seen-set that may be lost between them
NextLoss ==
    \/ \E domains \in DomainLists : Import(domains, "none")
    \/ \E id \in KnownIds, resp \in ShortResponses : Baseline(id, resp, "none")
    \/ \E id \in KnownIds, resp \in ShortResponses :
           Scan(id, resp, "up", "none")
    \/ SeenLost

SpecLoss == Init /\ [][NextLoss]_vars

(***************************************************************************)
(* Review of the stored items (SpecReview)                                 *)
(* A body is what the reviewer sends: the keys sent, and their values.      *)
(***************************************************************************)
ReviewBodies ==
    {[keys |-> {"keywordFinal"}, keywordFinal |-> <<"edited">>,
      reviewStatus |-> "pending"],
     [keys |-> {"reviewStatus"}, keywordFinal |-> <<>>,
      reviewStatus |-> "game"]}

\* a keywordFinal that is undefined
NoKeyword == <<Undefined>>

\* items[index] = { ...items[index], ...updates }.  api: updates holds the
\* keys sent.  server: the route passes { keywordFinal, reviewStatus }, a
\* key that was not sent with the value undefined, and the spread copies it.
Updated(variant, item, body) ==
    LET value(key, unsent) == IF key \in body.keys THEN body[key] ELSE unsent
    IN  IF variant = "api"
        THEN [item EXCEPT
                 !.keywordFinal = value("keywordFinal", @),
                 !.reviewStatus = value("reviewStatus", @)]
        ELSE [item EXCEPT
                 !.keywordFinal = value("keywordFinal", NoKeyword),
                 !.reviewStatus = value("reviewStatus", Undefined)]

\* the map of the server's loadNewItems over an item read from the file,
\* where a key stored as undefined is absent:
\* keywordFinal: item.keywordFinal || item.gameKeyword || '',
\* reviewStatus: item.reviewStatus || 'pending'
Migrated(item) ==
    [item EXCEPT
        !.keywordFinal = IF @ = NoKeyword THEN <<>> ELSE @,
        !.reviewStatus = IF @ = Undefined THEN "pending" ELSE @]

\* the item store as loadNewItems returns it after the update has written
\* `updated` at place k: the api storage returns what was stored
Reloaded(variant, list, k, updated) ==
    [list EXCEPT ![k] = IF variant = "server" THEN Migrated(updated)
                        ELSE updated]

\* an identifier no stored item has
UnknownItemId == 0

\* items.findIndex(i => i.id === id), 0 for -1
ItemIndex(list, id) ==
    IF \E k \in 1..Len(list) : list[k].id = id
    THEN CHOOSE k \in 1..Len(list) :
             /\ list[k].id = id
             /\ \A j \in 1..(k - 1) : list[j].id # id
    ELSE 0

\* updateNewItem of the item `id`; null (not found) leaves the store alone
UpdateNewItem(id, body) ==
    LET k == ItemIndex(items, id)
    IN  /\ items' = IF k = 0 THEN items
                    ELSE Reloaded(impl, items, k,
                                  Updated(impl, items[k], body))
        /\ last' = [NoOp EXCEPT
                        !.op = "review",
                        !.id = IF k = 0 THEN 0 ELSE items[k].siteId,
                        !.outcome = IF k = 0 THEN "notfound" ELSE "ok",
                        !.edit = [item |-> id, body |-> body]]
        /\ UNCHANGED <<impl, sites, seen, reported, aside>>

\* what the sitemap answers to the scans between reviews
ReviewResponses ==
    {Urlset(d) : d \in {x \in Sitemaps : Len(x) <= MaxShort + 1}}
        \cup {NetworkDown}

\* the operations and the review of the items between them
NextReview ==
    \/ \E domains \in DomainLists : Import(domains, "none")
    \/ \E id \in KnownIds, robots \in RobotsFiles :
           Discover(id, robots, Urlset(<<Catalogue[1]>>), "none")
    \/ \E id \in KnownIds, resp \in ShortResponses : Baseline(id, resp, "none")
    \/ \E id \in KnownIds, resp \in ReviewResponses :
           Scan(id, resp, "up", "none")
    \/ \E id \in {items[k].id : k \in 1..Len(items)} \cup {UnknownItemId},
          body \in ReviewBodies :
           UpdateNewItem(id, body)

SpecReview == Init /\ [][NextReview]_vars

\* what the sitemap of either of two sites answers
SitesResponses == {Urlset(Prefix(1)), Urlset(Prefix(2)), NetworkDown}

\* the operations on two sites imported together, one at a time
NextSites ==
    \/ Import(ConcDomains, "none")
    \/ \E id \in KnownIds, robots \in RobotsFiles, resp \in Located :
           Discover(id, robots, resp, "none")
    \/ \E id \in KnownIds, resp \in SitesResponses :
           Baseline(id, resp, "none")
    \/ \E id \in KnownIds, resp \in SitesResponses :
           Scan(id, resp, "up", "none")

SpecSites == Init /\ [][NextSites]_vars

(***************************************************************************)
(* Two operations in flight (SpecConc)                                     *)
(* run[p] is one call of baseline or scan: op, id, resp (what the sitemap  *)
(* URL answers), pc (the storage call it makes next) and its locals: sites *)
(* and seenData as loaded, siteSeen, urls, added, sample, batch            *)
(* (newItemsFound), current (the items appendNewItems loaded), outcome.    *)
(* An operation gives way to the other one at an await that waits for I/O: *)
(* every storage call and request of the api, the requests of the server   *)
(* (whose storage calls are synchronous).                                  *)
(***************************************************************************)
Procs == {1, 2}

\* what the sitemap of either site answers while the two operations run
ConcResponses == {Urlset(Prefix(2)), NetworkDown}

\* the stores the two operations start from: both sites imported, and
\* baselined over the first page of the catalogue
Conc0(variant) ==
    LET imported == RunImport(<<>>, ConcDomains, "none").sites
        b1 == RunBaseline(variant, imported, EmptyMap, imported[1].id,
                          Urlset(Prefix(1)), "none")
        b2 == RunBaseline(variant, b1.sites, b1.seen, imported[2].id,
                          Urlset(Prefix(1)), "none")
    IN  [sites |-> b2.sites, seen |-> b2.seen, items |-> <<>>]

NewCall(op, id, resp) ==
    [op |-> op, id |-> id, resp |-> resp, pc |-> "loadSites",
     sites |-> <<>>, seenData |-> EmptyMap, siteSeen |-> EmptyMap,
     urls |-> <<>>, added |-> 0, sample |-> <<>>, batch |-> <<>>,
     current |-> <<>>, outcome |-> "running"]

\* uuid(): no two calls draw the same identifier
Uuid(p, n) == 10 * p + n

\* One storage call of operation p, with the synchronous code before it,
\* on the world w = [sites, seen, items, run].
StepOf(variant, w, p) ==
    LET r == w.run[p]
        k == FindIndex(r.sites, r.id)
        site == r.sites[k]
        f == fetchSitemapUrls(variant, r.resp)
        to(loc) == [w EXCEPT !.run[p] = loc]
    IN  CASE r.pc = "loadSites" ->
               LET mine == w.sites[FindIndex(w.sites, r.id)]
               IN  IF r.op = "scan" /\ BaselineNotReady(mine)
                   THEN to([r EXCEPT !.sites = w.sites, !.pc = "done",
                                     !.outcome = "precondition"])
                   ELSE to([r EXCEPT !.sites = w.sites, !.pc = "fetch"])
          [] r.pc = "fetch" /\ ~f.ok ->
               LET failed == [r.sites EXCEPT ![k] = Failed(site, f.error)]
               IN  [w EXCEPT !.sites = failed,
                             !.run[p] = [r EXCEPT !.sites = failed,
                                                  !.pc = "done",
                                                  !.outcome = "failed"]]
          [] r.pc = "fetch" /\ f.ok /\ r.op = "baseline" ->
               LET seenData == IF r.id \in DOMAIN w.seen THEN w.seen
                               ELSE Put(w.seen, r.id, EmptyMap)
                   loop == BaselineLoop(f.urls, [seen |-> seenData[r.id],
                                                 added |-> 0, sample |-> <<>>])
               IN  to([r EXCEPT !.urls = f.urls,
                                !.seenData = Put(seenData, r.id, loop.seen),
                                !.siteSeen = loop.seen,
                                !.added = loop.added,
                                !.sample = loop.sample,
                                !.pc = "saveSeen"])
          [] r.pc = "fetch" /\ f.ok /\ r.op = "scan" ->
               LET loop == ScanLoop(f.urls, [seen |-> SeenOf(w.seen, r.id),
                                             newUrls |-> <<>>])
                   batch == [n \in 1..Len(loop.newUrls) |->
                                BuildItem(site, loop.newUrls[n], Uuid(p, n),
                                          "up")]
                   siteSeen == IF variant = "api"
                               THEN MergeItems(loop.seen, batch)
                               ELSE loop.seen
               IN  to([r EXCEPT !.urls = f.urls,
                                !.seenData = SeenToSave(variant, w.seen, r.id,
                                                        siteSeen),
                                !.siteSeen = siteSeen,
                                !.batch = batch,
                                !.pc = IF batch # <<>> THEN "saveSeen"
                                       ELSE "saveSites"])
          [] r.pc = "saveSeen" ->
               [w EXCEPT !.seen = r.seenData,
                         !.run[p].pc = IF r.op = "scan" THEN "loadItems"
                                       ELSE "saveSites"]
          [] r.pc = "loadItems" ->
               to([r EXCEPT !.current = w.items, !.pc = "saveItems"])
          [] r.pc = "saveItems" ->
               [w EXCEPT !.items = IF ToAdd(r.current, r.batch) # <<>>
                                   THEN appendNewItems(r.current, r.batch)
                                   ELSE w.items,
                         !.run[p].pc = "saveSites"]
          [] r.pc = "saveSites" ->
               LET stats == IF r.op = "baseline"
                            THEN BaselineStats(site, r.urls,
                                     [seen |-> r.siteSeen, added |-> r.added,
                                      sample |-> r.sample])
                            ELSE ScanStats(site, r.urls, r.siteSeen, r.batch)
                   saved == [r.sites EXCEPT ![k] = stats]
               IN  [w EXCEPT !.sites = saved,
                             !.run[p] = [r EXCEPT !.sites = saved,
                                                  !.pc = "done",
                                                  !.outcome = "ok"]]

\* the call r is about to make waits for I/O, so the other operation may run
Yields(variant, r) ==
    \/ variant = "api"
    \/ r.pc \in {"fetch", "done"}
    \/ r.pc = "saveSeen" /\ r.op = "scan"

\* the steps of operation p up to its next wait
RECURSIVE Segment(_, _, _)
Segment(variant, w, p) ==
    LET w1 == StepOf(variant, w, p)
    IN  IF Yields(variant, w1.run[p]) THEN w1 ELSE Segment(variant, w1, p)

InitConc ==
    /\ impl \in {"api", "server"}
    /\ sites = Conc0(impl).sites
    /\ seen = Conc0(impl).seen
    /\ items = Conc0(impl).items
    /\ reported = EmptyMap
    /\ last = NoOp
    /\ run \in {[p \in Procs |-> NewCall(ops[p], Conc0(impl).sites[p].id,
                                         resps[p])] :
                   ops \in [Procs -> {"baseline", "scan"}],
                   resps \in [Procs -> ConcResponses]}
    /\ disk = <<>>
    /\ probe = NoProbe

Advance(p) ==
    /\ run[p].pc # "done"
    /\ \E w \in {Segment(impl, [sites |-> sites, seen |-> seen,
                                items |-> items, run |-> run], p)} :
           /\ sites' = w.sites
           /\ seen' = w.seen
           /\ items' = w.items
           /\ run' = w.run
    /\ UNCHANGED <<impl, reported, last, disk, probe>>

NextConc == \E p \in Procs : Advance(p)

SpecConc == InitConc /\ [][NextConc]_vars

(***************************************************************************)
(* One save in its steps (SpecDisk)                                        *)
(* disk.fs maps a path (or storage key) to its content, a token string of  *)
(* JSON text; disk.save is the save in progress or the last one: path,     *)
(* prev (the content before it), data (the text it writes) and pc;         *)
(* disk.read is what the last load since the save began returned.          *)
(***************************************************************************)
Files == {"sites", "seen", "items"}

\* a path that does not exist
Absent == <<"ENOENT">>

\* JSON.stringify of the values saved
EmptyDoc == <<"[", "]">>

Docs == {EmptyDoc, <<"[", "a", "]">>, <<"[", "a", ",", "b", "]">>}

\* a write that goes to the file itself
SamePath(filePath) == filePath

\* const tempPath = `${filePath}.tmp`
TempPath(filePath) == filePath \o <<".tmp">>

Paths == {<<f>> : f \in Files} \cup {TempPath(<<f>>) : f \in Files}

NoSave == [path |-> <<>>, prev |-> <<>>, data |-> <<>>, pc |-> "closed"]

NoRead == [path |-> <<>>, got |-> <<>>]

InitDisk ==
    /\ impl \in {"api", "server"}
    /\ sites = <<>>
    /\ seen = EmptyMap
    /\ items = <<>>
    /\ reported = EmptyMap
    /\ last = NoOp
    /\ run = <<>>
    /\ disk = [fs |-> [p \in Paths |-> IF p \in {<<f>> : f \in Files}
                                       THEN EmptyDoc ELSE Absent],
               save |-> NoSave, read |-> NoRead]
    /\ probe = NoProbe

\* atomicWrite: writeFileSync opens the temporary file, empty
OpenTemp(f, data) ==
    /\ impl = "server"
    /\ disk.save.pc = "closed"
    /\ disk' = [fs |-> [disk.fs EXCEPT ![TempPath(<<f>>)] = <<>>],
                save |-> [path |-> <<f>>, prev |-> disk.fs[<<f>>],
                          data |-> data, pc |-> "writing"],
                read |-> NoRead]
    /\ UNCHANGED <<impl, sites, seen, items, reported, last, run, probe>>

\* writeFileSync writes the next part of the text
WriteTemp ==
    /\ disk.save.pc = "writing"
    /\ LET temp == TempPath(disk.save.path)
           text == Append(disk.fs[temp], disk.save.data[Len(disk.fs[temp]) + 1])
       IN  disk' = [disk EXCEPT !.fs[temp] = text,
                                !.save.pc = IF text = disk.save.data
                                            THEN "written" ELSE "writing"]
    /\ UNCHANGED <<impl, sites, seen, items, reported, last, run, probe>>

\* fs.renameSync(tempPath, filePath)
Rename ==
    /\ disk.save.pc = "written"
    /\ LET temp == TempPath(disk.save.path)
       IN  disk' = [disk EXCEPT
                        !.fs = [disk.fs EXCEPT ![temp] = Absent,
                                               ![disk.save.path] = disk.fs[temp]],
                        !.save.pc = "closed"]
    /\ UNCHANGED <<impl, sites, seen, items, reported, last, run, probe>>

\* set(key, value): one localStorage.setItem or chrome.storage.local.set
SetKey(f, data) ==
    /\ impl = "api"
    /\ disk' = [fs |-> [disk.fs EXCEPT ![<<f>>] = data],
                save |-> [path |-> <<f>>, prev |-> disk.fs[<<f>>],
                          data |-> data, pc |-> "closed"],
                read |-> NoRead]
    /\ UNCHANGED <<impl, sites, seen, items, reported, last, run, probe>>

\* loadSites, loadSeen, loadNewItems (readFileSync; get) by any reader
Load(f) ==
    /\ disk' = [disk EXCEPT !.read = [path |-> <<f>>, got |-> disk.fs[<<f>>]]]
    /\ UNCHANGED <<impl, sites, seen, items, reported, last, run, probe>>

NextDisk ==
    \/ \E f \in Files, data \in Docs : OpenTemp(f, data)
    \/ WriteTemp
    \/ Rename
    \/ \E f \in Files, data \in Docs : SetKey(f, data)
    \/ \E f \in Files : Load(f)

SpecDisk == InitDisk /\ [][NextDisk]_vars

(***************************************************************************)
(* One scan and its title fetches (SpecEnrich)                             *)
(* run is the scan after its sitemap was read: newUrls, the title fetches  *)
(* pending, the titles that came back (place in newUrls -> "up" or "down", *)
(* whether the page answered), and what it has written so far.  api awaits *)
(* each fetchPageTitle in the loop; server starts them all (Promise.all    *)
(* over newUrls.map) and they come back in any order.                      *)
(***************************************************************************)
\* what the sitemap answers to the scan
EnrichResponses == {Urlset(Prefix(n)) : n \in 1..MaxLen}

InitEnrich ==
    /\ impl \in {"api", "server"}
    /\ \E w \in {Conc0(impl)}, resp \in EnrichResponses :
           /\ sites = w.sites
           /\ seen = w.seen
           /\ items = w.items
           /\ \E f \in {fetchSitemapUrls(impl, resp)} :
              \E loop \in {ScanLoop(f.urls, [seen |-> SeenOf(w.seen, 1),
                                            newUrls |-> <<>>])} :
                  run = [id |-> 1, urls |-> f.urls, siteSeen |-> loop.seen,
                         newUrls |-> loop.newUrls, pending |-> {},
                         titles |-> EmptyMap, pc |-> "enrich",
                         savedSeen |-> FALSE, appended |-> FALSE]
    /\ reported = EmptyMap
    /\ last = NoOp
    /\ disk = <<>>
    /\ probe = NoProbe

\* a scan that does not wait for its title fetches
NeverWaits(r) == TRUE

\* every fetchPageTitle of the scan has come back: the loop of awaits has
\* ended (api), await Promise.all has returned (server)
EnrichmentSettled(r) ==
    r.pending = {} /\ DOMAIN r.titles = 1..Len(r.newUrls)

\* newItemsFound, in the order of newUrls
BatchOf(r) ==
    [n \in 1..Len(r.newUrls) |->
        BuildItem(sites[FindIndex(sites, r.id)], r.newUrls[n],
                  MaxItemId(items) + n,
                  IF n \in DOMAIN r.titles THEN r.titles[n] ELSE "down")]

\* api: the next call of fetchPageTitle in the loop
StartTitle ==
    /\ impl = "api"
    /\ run.pc = "enrich"
    /\ run.pending = {}
    /\ \E n \in 1..Len(run.newUrls) :
           /\ n \notin DOMAIN run.titles
           /\ \A j \in 1..(n - 1) : j \in DOMAIN run.titles
           /\ run' = [run EXCEPT !.pending = {n}]
    /\ UNCHANGED <<impl, sites, seen, items, reported, last, disk, probe>>

\* server: newUrls.map(async ...) calls fetchPageTitle for every new URL
StartAllTitles ==
    /\ impl = "server"
    /\ run.pc = "enrich"
    /\ run.pending = {}
    /\ run.titles = EmptyMap
    /\ run.newUrls # <<>>
    /\ run' = [run EXCEPT !.pending = 1..Len(run.newUrls)]
    /\ UNCHANGED <<impl, sites, seen, items, reported, last, disk, probe>>

\* a fetchPageTitle comes back, with a title or without
FinishTitle(n, web) ==
    /\ n \in run.pending
    /\ run' = [run EXCEPT !.pending = @ \ {n}, !.titles = Put(@, n, web)]
    /\ UNCHANGED <<impl, sites, seen, items, reported, last, disk, probe>>

\* if (newItemsFound.length > 0) { ... saveSeen(seenData)
SaveSeenStep ==
    /\ run.pc = "enrich"
    /\ EnrichmentSettled(run)
    /\ run.newUrls # <<>>
    /\ \E siteSeen \in {IF impl = "api"
                        THEN MergeItems(run.siteSeen, BatchOf(run))
                        ELSE run.siteSeen} :
           /\ seen' = SeenToSave(impl, seen, run.id, siteSeen)
           /\ run' = [run EXCEPT !.siteSeen = siteSeen, !.savedSeen = TRUE,
                                 !.pc = "appendNewItems"]
    /\ UNCHANGED <<impl, sites, items, reported, last, disk, probe>>

\* ... appendNewItems(newItemsFound) }
AppendStep ==
    /\ run.pc = "appendNewItems"
    /\ items' = appendNewItems(items, BatchOf(run))
    /\ run' = [run EXCEPT !.appended = TRUE, !.pc = "saveSites"]
    /\ UNCHANGED <<impl, sites, seen, reported, last, disk, probe>>

\* no new item: the scan goes on to its statistics
NothingNew ==
    /\ run.pc = "enrich"
    /\ run.newUrls = <<>>
    /\ run' = [run EXCEPT !.pc = "saveSites"]
    /\ UNCHANGED <<impl, sites, seen, items, reported, last, disk, probe>>

\* the statistics and saveSites(sites)
SaveSitesStep ==
    /\ run.pc = "saveSites"
    /\ \E k \in {FindIndex(sites, run.id)} :
           sites' = [sites EXCEPT
                        ![k] = ScanStats(sites[k], run.urls, run.siteSeen,
                                         BatchOf(run))]
    /\ run' = [run EXCEPT !.pc = "done"]
    /\ UNCHANGED <<impl, seen, items, reported, last, disk, probe>>

NextEnrich ==
    \/ StartTitle
    \/ StartAllTitles
    \/ \E n \in 1..MaxLen, web \in {"up", "down"} : FinishTitle(n, web)
    \/ SaveSeenStep
    \/ AppendStep
    \/ NothingNew
    \/ SaveSitesStep

SpecEnrich == InitEnrich /\ [][NextEnrich]_vars

(***************************************************************************)
(* Functions applied to drawn inputs (SpecPure)                            *)
(* probe is one call: fn, variant (the implementation, when there are      *)
(* two), input, and, once done, output.                                    *)
(***************************************************************************)
\* longest string given to normalizeUrl or served as a <loc>
MaxTokens == 5

Strings(alphabet, n) == UNION {[1..k -> alphabet] : k \in 0..n}

\* the strings normalizeUrl is applied to
NormalizeInputs == Strings({SP, Origin, "/", "a", "#"}, MaxTokens)

\* the <loc> values a scanned sitemap may hold, absolute or not
LocInputs == Strings({Origin, "/", "c", "t", "a"}, MaxTokens)

LocateDomains == {<<"x.com">>, <<"localhost">>}

\* bodies of robots.txt, as lines
RobotsLines ==
    { <<>>,
      << <<"User-agent", ":", SP, "*">>, <<"Sitemap", ":", SP, "/", "s1.xml">> >>,
      << <<"SITEMAP", ":", "s1.xml">>, <<"Sitemap", ":", SP, "/", "s2.xml">> >>,
      << <<SP, "sitemap", ":", SP, "HTTPS://", "cdn.io", ":", "8080", "/",
           "s.xml", SP>>,
         <<"Sitemap", ":", SP, "/", "s2.xml">> >>,
      << <<"Sitemap", ":", SP>>, <<"Sitemap", ":", SP, "/", "s1.xml">> >>,
      << <<"Sitemap", ":">>, <<"Sitemap", ":", SP, "/", "s1.xml">> >> }

\* what the request for robots.txt gives
RobotsStatuses == {200, 203, 404}

RobotsInputs ==
    {[net |-> "err", status |-> 0, lines |-> <<>>]}
        \cup {[net |-> "ok", status |-> st, lines |-> ls] :
                 st \in RobotsStatuses, ls \in RobotsLines}

\* what the candidate URL answers
LocateResponses ==
    {Urlset(<<Catalogue[1]>>), Urlset(<<>>), SitemapIndex,
     [net |-> "ok", status |-> 200, root |-> "html", entries |-> <<>>],
     [net |-> "ok", status |-> 203, root |-> "urlset",
      entries |-> <<Catalogue[1]>>],
     NetworkDown, NotFound404}

\* the domains getProtocol is applied to: a host, then nothing, a port or
\* a parent domain
ProtocolHeads ==
    {<<"localhost">>, <<"127", ".", "0", ".", "0", ".", "1">>,
     <<"0", ".", "0", ".", "0", ".", "0">>,
     <<"1", ".", "1", ".", "0", ".", "1">>, <<"x.com">>,
     <<"my", "localhost">>}

ProtocolTails == {<<>>, <<":", "3000">>, <<".", "example.com">>}

ProtocolDomains == {h \o t : h \in ProtocolHeads, t \in ProtocolTails}

\* the URLs classifyUrl is applied to: a path that is empty or starts with
\* "/", with the origin in front of it or (unparseable) without
ClassifyPaths ==
    {p \in Strings({"/", "c", "t", "category", "tag", "a"}, MaxTokens) :
        p = <<>> \/ p[1] = "/"}

ClassifyInputs == ClassifyPaths \cup {<<Origin>> \o p : p \in ClassifyPaths}

\* longest sitemap a baseline is applied to
MaxSample == 6

\* the sitemaps a baseline is applied to, on a site that has no seen-set
\* yet or was baselined over the first page of the catalogue
SampleInputs ==
    {[entries |-> e, baselined |-> b] :
        e \in Strings({Catalogue[1], Catalogue[2], Catalogue[3]}, MaxSample),
        b \in BOOLEAN}

\* the lists of domains given to two imports in a row, and what the
\* sitemap of the first site answers between them
ImportDomains ==
    {<<"x.com">>, <<"y.com">>, <<SP, "HTTPS://", "X.COM", "/">>, <<>>}

ImportInputs ==
    {[first |-> a, resp |-> rs, second |-> b] :
        a \in Strings(ImportDomains, 2), b \in Strings(ImportDomains, 2),
        rs \in {Urlset(Prefix(2)), NetworkDown}}

\* most <url> children of a sitemap fetched on its own
MaxEntries == 3

\* what a sitemap URL answers to fetchSitemapUrls: the request fails, or a
\* status and a document come back
FetchResponses ==
    {NetworkDown} \cup
    {[net |-> "ok", status |-> st, root |-> rt, entries |-> e] :
        st \in {200, 203, 404, 500},
        rt \in {"urlset", "sitemapindex", "html"},
        e \in Strings({Catalogue[1], Catalogue[2], NoLoc}, MaxEntries)}

Call(fn, variant, input) ==
    [fn |-> fn, variant |-> variant, input |-> input, output |-> <<>>,
     done |-> FALSE]

NormalizeCalls == {Call("normalizeUrl", "none", x) : x \in NormalizeInputs}

ScanCalls(variant) == {Call("scan", variant, x) : x \in LocInputs}

LocateCalls(variant) ==
    {Call("discoverSitemap", variant,
          [domain |-> d, robots |-> rb, resp |-> rs]) :
        d \in LocateDomains, rb \in RobotsInputs, rs \in LocateResponses}

ProtocolCalls == {Call("getProtocol", "none", d) : d \in ProtocolDomains}

ClassifyCalls == {Call("classifyUrl", "none", u) : u \in ClassifyInputs}

BaselineCalls(variant) == {Call("baseline", variant, x) : x \in SampleInputs}

ImportCalls(variant) == {Call("importSites", variant, x) : x \in ImportInputs}

FetchCalls(variant) ==
    {Call("fetchSitemapUrls", variant, x) : x \in FetchResponses}

InitPure ==
    /\ impl \in {"api", "server"}
    /\ sites = <<>>
    /\ seen = EmptyMap
    /\ items = <<>>
    /\ reported = EmptyMap
    /\ last = NoOp
    /\ run = <<>>
    /\ disk = <<>>
    /\ \/ probe \in NormalizeCalls
       \/ probe \in ScanCalls(impl)
       \/ probe \in LocateCalls(impl)
       \/ probe \in ProtocolCalls
       \/ probe \in ClassifyCalls
       \/ probe \in BaselineCalls(impl)
       \/ probe \in ImportCalls(impl)
       \/ probe \in FetchCalls(impl)

Return(value) == probe' = [probe EXCEPT !.output = value, !.done = TRUE]

ApplyNormalize ==
    /\ probe.fn = "normalizeUrl"
    /\ ~probe.done
    /\ Return(normalizeUrl(probe.input))
    /\ UNCHANGED <<impl, sites, seen, items, reported, last, run, disk>>

\* a scan of the first of two baselined sites, whose sitemap now lists the
\* one location drawn: the items it returns
ApplyScan ==
    /\ probe.fn = "scan"
    /\ ~probe.done
    /\ \E w \in {Conc0(probe.variant)} :
           \E r \in {RunScan(probe.variant, w.sites, w.seen, w.items,
                              w.sites[1].id, Urlset(<<probe.input>>), "up",
                              "none")} :
               Return(r.newItems)
    /\ UNCHANGED <<impl, sites, seen, items, reported, last, run, disk>>

ApplyLocate ==
    /\ probe.fn = "discoverSitemap"
    /\ ~probe.done
    /\ Return(discoverSitemap(probe.variant, probe.input.domain,
                              probe.input.robots, probe.input.resp))
    /\ UNCHANGED <<impl, sites, seen, items, reported, last, run, disk>>

ApplyProtocol ==
    /\ probe.fn = "getProtocol"
    /\ ~probe.done
    /\ Return(getProtocol(probe.input))
    /\ UNCHANGED <<impl, sites, seen, items, reported, last, run, disk>>

ApplyClassify ==
    /\ probe.fn = "classifyUrl"
    /\ ~probe.done
    /\ Return(classifyUrl(probe.input))
    /\ UNCHANGED <<impl, sites, seen, items, reported, last, run, disk>>

\* a baseline of the first of two imported sites: the record it leaves and
\* the seen-set it stores for the site
ApplyBaseline ==
    /\ probe.fn = "baseline"
    /\ ~probe.done
    /\ \E w \in {IF probe.input.baselined THEN Conc0(probe.variant)
                  ELSE [sites |-> RunImport(<<>>, ConcDomains, "none").sites,
                        seen |-> EmptyMap, items |-> <<>>]} :
           \E r \in {RunBaseline(probe.variant, w.sites, w.seen, w.sites[1].id,
                                  Urlset(probe.input.entries), "none")} :
               Return([outcome |-> r.outcome, site |-> r.sites[1],
                       seen |-> SeenOf(r.seen, w.sites[1].id)])
    /\ UNCHANGED <<impl, sites, seen, items, reported, last, run, disk>>

\* an import into the empty store, then discover, baseline and scan of
\* the first site, then a second import: the stored site list after each
ApplyImport ==
    /\ probe.fn = "importSites"
    /\ ~probe.done
    /\ \E i1 \in {RunImport(<<>>, probe.input.first, "none")} :
       \E d \in {RunDiscover(probe.variant, i1.sites, 1,
                             CHOOSE rb \in RobotsFiles : TRUE,
                             probe.input.resp, "none")} :
       \E b \in {RunBaseline(probe.variant, d.sites, EmptyMap, 1,
                             probe.input.resp, "none")} :
       \E c \in {RunScan(probe.variant, b.sites, b.seen, <<>>, 1,
                         Urlset(Prefix(3)), "up", "none")} :
       \E i2 \in {RunImport(c.sites, probe.input.second, "none")} :
           Return(<<i1.sites, d.sites, b.sites, c.sites, i2.sites>>)
    /\ UNCHANGED <<impl, sites, seen, items, reported, last, run, disk>>

ApplyFetch ==
    /\ probe.fn = "fetchSitemapUrls"
    /\ ~probe.done
    /\ Return(fetchSitemapUrls(probe.variant, probe.input))
    /\ UNCHANGED <<impl, sites, seen, items, reported, last, run, disk>>

NextPure ==
    \/ ApplyNormalize
    \/ ApplyScan
    \/ ApplyLocate
    \/ ApplyProtocol
    \/ ApplyClassify
    \/ ApplyBaseline
    \/ ApplyImport
    \/ ApplyFetch

SpecPure == InitPure /\ [][NextPure]_vars

\* How baseline and scan end for their caller.  api: 'Site not found' and
\* 'Baseline not ready' are thrown and the catch block ends with throw e.
\* server: the route answers 404, 400 or 500.  Either: an exception of the
\* saveSites of the catch block leaves the operation.
Ending(variant, outcome) ==
    CASE outcome = "ok" -> "returned"
      [] outcome = "crashed" -> "raised"
      [] OTHER -> IF variant = "api" THEN "raised" ELSE "returned"

(***************************************************************************)
(* Properties                                                              *)
(***************************************************************************)
\* the stored record of a site
SiteOf(list, id) == list[FindIndex(list, id)]

Writes == {"saveSeen", "appendNewItems", "saveSites"}

\* C1: a scan of a stored site whose baselineReady is false ends with the
\* precondition error after reading the site list only: no sitemap fetch and
\* no write is made, and the site list, the seen-set and the item store are
\* what they were before the call.
ScanBeforeBaselineRejected ==
    [][(/\ last'.op = "scan"
        /\ last'.id \in KnownIds
        /\ ~SiteOf(sites, last'.id).baselineReady)
       => /\ last'.outcome = "precondition"
          /\ Range(last'.trace) \cap (Writes \cup {"fetch"}) = {}
          /\ sites' = sites
          /\ seen' = seen
          /\ items' = items]_vars

\* a scan was rejected on a site that a failed baseline had touched
ScanRejectedReached ==
    /\ last.op = "scan"
    /\ last.outcome = "precondition"
    /\ SiteOf(sites, last.id).status = "failed"

\* C2: a scan that fails, at whatever stage, leaves the stored seen-set and
\* the stored items as they were before it started.
FailedScanAllOrNothing ==
    [][(last'.op = "scan" /\ last'.outcome \in {"failed", "crashed"})
       => (seen' = seen /\ items' = items)]_vars

\* C3: a baseline that fails in the fetch or the parse of the sitemap leaves
\* the stored seen-set as it was, and stores the site with status failed, the
\* message of the failure as errorMessage and a failure summary carrying the
\* same message as lastResult.
FailedBaselineKeepsSeen ==
    [][(/\ last'.op = "baseline"
        /\ last'.outcome = "failed"
        /\ last'.stage \in {"fetch", "parse"})
       => /\ seen' = seen
          /\ SiteOf(sites', last'.id).status = "failed"
          /\ SiteOf(sites', last'.id).errorMessage
                 \in {"Failed to fetch", "Network Error", "Not a urlset sitemap"}
          /\ (last'.stage = "parse")
                 = (SiteOf(sites', last'.id).errorMessage = "Not a urlset sitemap")
          /\ SiteOf(sites', last'.id).lastResult
                 = [outcome |-> "failure", parsedCount |-> 0,
                    newOrInsertedCount |-> 0,
                    error |-> SiteOf(sites', last'.id).errorMessage,
                    sampleUrls |-> <<>>]]_vars

\* a baseline failed in the parse on a site that had a seen-set
FailedBaselineReached ==
    /\ last.op = "baseline"
    /\ last.outcome = "failed"
    /\ last.stage = "parse"
    /\ SeenOf(seen, last.id) # EmptyMap

\* C4: a successful baseline stores baselineReady = true, and a baseline that
\* fails on a site whose baselineReady is false leaves it false.
BaselineReadyOnlyOnSuccess ==
    [][(last'.op = "baseline" /\ last'.id \in KnownIds)
       => /\ (last'.outcome = "ok") => SiteOf(sites', last'.id).baselineReady
          /\ (/\ last'.outcome \in {"failed", "crashed"}
              /\ ~SiteOf(sites, last'.id).baselineReady)
                 => ~SiteOf(sites', last'.id).baselineReady]_vars

Normalized(urls) == {normalizeUrl(urls[k]) : k \in 1..Len(urls)}

\* two successful baselines in a row on one site over the same sitemap, the
\* first on an empty seen-set
BaselineTwice ==
    /\ last.op = "baseline"
    /\ last.prev = "baseline"
    /\ last.prevEmpty
    /\ last.prevUrls = last.urls

FirstAbsent(urls, siteSeen) ==
    LET norm == [k \in 1..Len(urls) |-> normalizeUrl(urls[k])]
        first == {k \in 1..Len(urls) :
                     /\ hashUrl(norm[k]) \notin DOMAIN siteSeen
                     /\ \A j \in 1..(k - 1) : norm[j] # norm[k]}
        RECURSIVE Pick(_)
        Pick(k) == IF k > Len(urls) THEN <<>>
                   ELSE IF k \in first THEN <<norm[k]>> \o Pick(k + 1)
                   ELSE Pick(k + 1)
    IN  Pick(1)

NetworkFailureFrame ==
    [][(/\ last'.op = "scan"
        /\ last'.outcome = "failed"
        /\ last'.stage = "fetch")
       => /\ seen' = seen
          /\ items' = items
          /\ sites' = [sites EXCEPT
                 ![FindIndex(sites, last'.id)] =
                     [@ EXCEPT !.status = "failed",
                               !.errorMessage =
                                   SiteOf(sites', last'.id).errorMessage,
                               !.lastResult =
                                   SiteOf(sites', last'.id).lastResult]]]_vars

\* a scan failed in the fetch on a site whose counters were not zero
NetworkFailureReached ==
    /\ last.op = "scan"
    /\ last.outcome = "failed"
    /\ last.stage = "fetch"
    /\ SiteOf(sites, last.id).lastNewFound > 0
    /\ SiteOf(sites, last.id).seenCount > 0
    /\ SiteOf(sites, last.id).status = "failed"

\* the item store without the identifiers, which are random
EraseIds(list) == [k \in 1..Len(list) |-> [list[k] EXCEPT !.id = 0]]

\* one whole operation on the stores w = [sites, seen, items]
SerialRun(variant, w, call) ==
    IF call.op = "baseline"
    THEN LET r == RunBaseline(variant, w.sites, w.seen, call.id, call.resp,
                              "none")
         IN  [sites |-> r.sites, seen |-> r.seen, items |-> w.items]
    ELSE LET r == RunScan(variant, w.sites, w.seen, w.items, call.id,
                          call.resp, "up", "none")
         IN  [sites |-> r.sites, seen |-> r.seen, items |-> r.items]

\* the stores after the operation of p and then the operation of q
Serial(p, q) ==
    LET w == SerialRun(impl, SerialRun(impl, Conc0(impl), run[p]), run[q])
    IN  [w EXCEPT !.items = EraseIds(w.items)]

BothSucceeded == \A p \in Procs : run[p].pc = "done" /\ run[p].outcome = "ok"

\* C11: baseline and scan running at the same time on two different sites
\* are independent: once both have succeeded, whatever the interleaving of
\* their steps, the stored site list, seen-set and items are those of one
\* of the two serial executions.
ConcurrentAsSerial ==
    BothSucceeded =>
        [sites |-> sites, seen |-> seen, items |-> EraseIds(items)]
            \in {Serial(1, 2), Serial(2, 1)}

\* C12: every write of the sites, seen-set or item file is atomic for
\* readers: a load made at any point of a save, or after it, returns the
\* whole content from before the save or the whole content the save writes.
LoadsSeeWhole ==
    disk.read.path = disk.save.path =>
        disk.read.got \in {disk.save.prev, disk.save.data}

\* a load made while the temporary file holds a part of the new text
LoadDuringSaveReached ==
    /\ disk.save.pc = "writing"
    /\ disk.fs[TempPath(disk.save.path)] # <<>>
    /\ disk.save.prev # disk.save.data
    /\ disk.read.path = disk.save.path
    /\ disk.read.got = disk.save.prev

ReviewStatusByType ==
    (probe.fn = "scan" /\ probe.done) =>
        \A k \in 1..Len(probe.output) :
            LET item == probe.output[k]
            IN  /\ item.urlType \in {"game", "tag", "category", "home", "unknown"}
                /\ item.reviewStatus = "pending" <=> item.urlType = "game"
                /\ item.urlType # "game" => item.reviewStatus = "not_game"

\* a scan that built an item for a tag page
TagItemReached ==
    /\ probe.fn = "scan"
    /\ probe.done
    /\ \E k \in 1..Len(probe.output) :
           /\ probe.output[k].urlType = "tag"
           /\ probe.output[k].reviewStatus = "not_game"

EraseTitles(list) == [k \in 1..Len(list) |-> [list[k] EXCEPT !.title = Undefined]]

NormalizeIdempotent ==
    (probe.fn = "normalizeUrl" /\ probe.done) =>
        normalizeUrl(probe.output) = probe.output

\* the candidate URL answered 200 and the request did not fail
Answered(resp) == resp.net = "ok" /\ resp.status = 200

LocateDone == probe.fn = "discoverSitemap" /\ probe.done

\* C17: discoverSitemap maps the document fetched to its result by the root
\* element: urlset gives status ok with no error, sitemapindex gives
\* unsupported with 'Type: sitemapindex', any other or unparseable root
\* gives unsupported with 'Unknown XML structure'.
LocateByRoot ==
    (LocateDone /\ Answered(probe.input.resp)) =>
        LET root == probe.input.resp.root
            out == probe.output
        IN  /\ root = "urlset" =>
                   out.status = "ok" /\ out.error = Undefined
            /\ root = "sitemapindex" =>
                   out.status = "unsupported" /\ out.error = "Type: sitemapindex"
            /\ root \notin {"urlset", "sitemapindex"} =>
                   /\ out.status = "unsupported"
                   /\ out.error = "Unknown XML structure"

\* C18: when the candidate URL answers with a status other than 200,
\* discoverSitemap returns status failed with the error "HTTP " followed by
\* the status code.
NonOkIsHttpError ==
    (LocateDone /\ probe.input.resp.net = "ok"
                /\ probe.input.resp.status # 200) =>
        /\ probe.output.status = "failed"
        /\ probe.output.error = "HTTP " \o ToString(probe.input.resp.status)

\* {scheme}{domain}/sitemap.xml
DefaultUrl(domain) == <<getProtocol(domain)>> \o domain \o <<"/", "sitemap.xml">>

Unreachable == [net |-> "err", status |-> 0, lines |-> <<>>]

\* the result is the one of a site whose robots.txt cannot be reached: the
\* default URL, with the status and error that its fetch alone gives
AsWithoutRobots ==
    /\ probe.output.url = DefaultUrl(probe.input.domain)
    /\ probe.output = discoverSitemap(probe.variant, probe.input.domain,
                                      Unreachable, probe.input.resp)

\* C19 as stated: a request for robots.txt that fails or is answered with a
\* status other than 200 is swallowed: the candidate is the default URL and
\* the result is decided by the fetch of that candidate only.
RobotsFailureSwallowed ==
    (LocateDone /\ (\/ probe.input.robots.net = "err"
                    \/ probe.input.robots.status # 200)) =>
        AsWithoutRobots

\* the implementation does not read the answer: the request failed, or the
\* status is not 200 (server) or not in 200..299 (browser implementations)
Refused(variant, robots) ==
    \/ robots.net = "err"
    \/ variant = "server" /\ robots.status # 200
    \/ variant = "api" /\ robots.status \notin 200..299

\* reading the lines throws: the first sitemap: line that has anything but
\* blanks after its colon, or nothing at all, is one with nothing at all
ReadThrows(lines) ==
    \E k \in 1..Len(lines) :
        /\ IsSitemapLine(lines[k])
        /\ AfterColon(lines[k]) = <<>>
        /\ \A j \in 1..(k - 1) :
               IsSitemapLine(lines[j]) =>
                   AfterColon(lines[j]) # <<>> /\ Trim(AfterColon(lines[j])) = <<>>

\* C19 (amended): a request for robots.txt that fails, an answer whose
\* status the implementation does not accept (other than 200 in the server,
\* outside 200..299 in the browser implementations), and an exception while
\* reading the lines are swallowed: the candidate is the default URL and the
\* result is decided by the fetch of that candidate only.
RobotsRefusedSwallowed ==
    (LocateDone /\ (\/ Refused(probe.variant, probe.input.robots)
                    \/ ReadThrows(probe.input.robots.lines))) =>
        AsWithoutRobots

\* robots.txt answered 404 with a body that names a sitemap, and the default
\* URL was found to be a urlset
RobotsNotFoundReached ==
    /\ LocateDone
    /\ probe.input.robots.status = 404
    /\ \E k \in 1..Len(probe.input.robots.lines) :
           IsSitemapLine(probe.input.robots.lines[k])
    /\ probe.output.url = DefaultUrl(probe.input.domain)
    /\ probe.output.status = "ok"

\* the value of a sitemap: line, trimmed
DirectiveValue(line) == Trim(AfterColon(line))

\* the first line, in file order, that carries a sitemap: directive with a
\* value; 0 if there is none
FirstValued(lines) ==
    LET valued == {k \in 1..Len(lines) :
                      IsSitemapLine(lines[k]) /\ DirectiveValue(lines[k]) # <<>>}
    IN  IF valued = {} THEN 0
        ELSE CHOOSE k \in valued : \A j \in valued : k <= j

\* the candidate the directives of a retrieved robots.txt stand for
Directed(domain, lines) ==
    LET k == FirstValued(lines)
        value == DirectiveValue(lines[k])
    IN  IF k = 0 THEN DefaultUrl(domain)
        ELSE IF HasScheme(value) THEN value
        ELSE <<getProtocol(domain)>> \o domain \o
             (IF Head(value) = "/" THEN value ELSE <<"/">> \o value)

\* C20: when robots.txt is retrieved, discoverSitemap uses the first line
\* (in file order, whatever the case of the directive) that carries a
\* sitemap: directive with a value, and ignores later ones: a value without
\* http(s) scheme is resolved as scheme, domain and the value, prefixed with
\* '/' if it lacks one; a value with a scheme is used as it is, its colons
\* kept.
FirstDirectiveUsed ==
    (LocateDone /\ ~Refused(probe.variant, probe.input.robots)) =>
        probe.output.url = Directed(probe.input.domain, probe.input.robots.lines)

\* ---- C21 ----
\* the domain without its port, if it ends with one
WithoutPort(domain) ==
    IF Len(domain) >= 3 /\ domain[Len(domain) - 1] = ":"
    THEN SubSeq(domain, 1, Len(domain) - 2)
    ELSE domain

\* the domains the scheme rule names: localhost, 127.0.0.1, 0.0.0.0 or a
\* bare IPv4 address, each with an optional port
NamedLocal(domain) ==
    \/ WithoutPort(domain) = <<"localhost">>
    \/ IsIPv4(domain)
    \/ IsIPv4(WithoutPort(domain))

\* C21: the scheme chosen for a domain is http:// exactly when the domain is
\* localhost, 127.0.0.1, 0.0.0.0 or a bare IPv4 address with optional port,
\* and https:// for every other domain, a domain that merely begins with
\* one of those names (localhost.example.com) included.
SchemeByDomain ==
    (probe.fn = "getProtocol" /\ probe.done) =>
        probe.output = IF NamedLocal(probe.input) THEN "http://"
                       ELSE "https://"

\* ---- C22 ----
ClassifyDone == probe.fn = "classifyUrl" /\ probe.done

\* the path of the URL classified: what follows the origin
PathOf(url) == Tail(url)

\* the three tokens of path from position k on, if there are three
Window(path, k) ==
    IF k + 2 <= Len(path) THEN SubSeq(path, k, k + 2) ELSE <<>>

CategoryPath(path) ==
    \/ Window(path, 1) = <<"/", "c", "/">>
    \/ \E k \in 1..Len(path) : Window(path, k) = <<"/", "category", "/">>

TagPath(path) ==
    \/ Window(path, 1) = <<"/", "t", "/">>
    \/ \E k \in 1..Len(path) : Window(path, k) = <<"/", "tag", "/">>

\* C22: classify returns unknown for an unparseable URL, home for the path
\* "/" or the empty path, otherwise category for a path that starts with
\* /c/ or contains /category/, otherwise tag for a path that starts with
\* /t/ or contains /tag/, otherwise game; a path that matches both the
\* category and the tag rule is a category.
ClassifiedByPath ==
    ClassifyDone =>
        LET url == probe.input
            path == IF url = <<>> THEN <<>> ELSE PathOf(url)
        IN  /\ (url = <<>> \/ url[1] # Origin) => probe.output = "unknown"
            /\ (url # <<>> /\ url[1] = Origin) =>
                  /\ path \in {<<>>, <<"/">>} => probe.output = "home"
                  /\ (path \notin {<<>>, <<"/">>} /\ CategoryPath(path)) =>
                         probe.output = "category"
                  /\ (path \notin {<<>>, <<"/">>} /\ ~CategoryPath(path)
                        /\ TagPath(path)) => probe.output = "tag"
                  /\ (path \notin {<<>>, <<"/">>} /\ ~CategoryPath(path)
                        /\ ~TagPath(path)) => probe.output = "game"

\* a URL whose path matches both rules has been classified
BothRulesReached ==
    /\ ClassifyDone
    /\ Len(probe.input) > 1
    /\ probe.input[1] = Origin
    /\ CategoryPath(PathOf(probe.input))
    /\ TagPath(PathOf(probe.input))
    /\ probe.output = "category"

\* ---- C23 ----
\* the step is a baseline that succeeded
BaselineSucceeds == last'.op = "baseline" /\ last'.outcome = "ok"

FirstOf(s, n) == SubSeq(s, 1, IF Len(s) < n THEN Len(s) ELSE n)

\* s lists some of the normalized URLs of urls, each once, in the order of
\* their first occurrence in urls
InSitemapOrder(s, urls) ==
    LET norm == [k \in 1..Len(urls) |-> normalizeUrl(urls[k])]
        pos(u) == CHOOSE k \in 1..Len(urls) :
                      /\ norm[k] = u
                      /\ \A j \in 1..(k - 1) : norm[j] # u
    IN  /\ \A i \in 1..Len(s) : \E k \in 1..Len(urls) : norm[k] = s[i]
        /\ \A i, j \in 1..Len(s) : i < j => pos(s[i]) < pos(s[j])

ScanSucceeded == last.op = "scan" /\ last.outcome = "ok"

\* what C24 says of the record, the seenCount aside
ScanSuccessSummary ==
    ScanSucceeded =>
        LET site == SiteOf(sites, last.id)
        IN  /\ site.status = "ok"
            /\ site.lastScanAt # Null
            /\ site.lastNewFound = Len(last.newUrls)
            /\ site.lastResult.outcome = "success"
            /\ InSitemapOrder(last.newUrls, last.urls)
            /\ site.lastResult.sampleUrls = FirstOf(last.newUrls, 5)

\* C24: after every successful scan the site record has status = ok,
\* lastScanAt set, seenCount equal to the size of the site's seen-set,
\* lastNewFound the number of new items of that scan, and a success summary
\* whose sampleUrls are the URLs of the first min(5, n) new items in sitemap
\* order.
ScanSuccessRecord ==
    /\ ScanSuccessSummary
    /\ ScanSucceeded =>
           SiteOf(sites, last.id).seenCount = SizeOf(SeenOf(seen, last.id))

\* ---- C25 ----
BaselineDone ==
    probe.fn = "baseline" /\ probe.done /\ probe.output.outcome = "ok"

NormalizedSeq(urls) == [k \in 1..Len(urls) |-> normalizeUrl(urls[k])]

\* C25: the sample of a successful baseline is the first min(5, n)
\* normalized URLs of the sitemap in sitemap order, whether or not they
\* were already in the seen-set, and never has more than 5 entries; a
\* baseline over [A, B, C] on a site without a seen-set gives seenCount = 3
\* and the sample [A, B, C].
BaselineSampleFirstFive ==
    BaselineDone =>
        LET entries == probe.input.entries
            result == probe.output.site.lastResult
        IN  /\ result.sampleUrls = FirstOf(NormalizedSeq(entries), 5)
            /\ Len(result.sampleUrls) <= 5
            /\ (entries = Prefix(3) /\ ~probe.input.baselined) =>
                   /\ probe.output.site.seenCount = 3
                   /\ result.sampleUrls = NormalizedSeq(Prefix(3))

\* a baseline has succeeded over a sitemap of more than five entries, the
\* first of them in the seen-set before it
LongBaselineReached ==
    /\ BaselineDone
    /\ Len(probe.input.entries) > 5
    /\ probe.input.baselined
    /\ probe.input.entries[1] = Catalogue[1]
    /\ Len(probe.output.site.lastResult.sampleUrls) = 5
    /\ probe.output.site.lastResult.newOrInsertedCount > 0

\* ---- C26 ----
\* the step is a baseline or a scan that succeeded
OperationSucceeds ==
    last'.op \in {"baseline", "scan"} /\ last'.outcome = "ok"

\* C26: per-site operations follow the state machine: a baseline is run
\* only on a site with status = ok and baselineReady = false, a scan only on
\* a site with status = ok and baselineReady = true, and a successful scan
\* leaves the site in status = ok with baselineReady = true; a baseline or
\* scan of a site whose status is unknown, failed or unsupported is not a
\* transition.
StateMachineFollowed ==
    [][OperationSucceeds =>
          LET before == SiteOf(sites, last'.id)
              after == SiteOf(sites', last'.id)
          IN  /\ before.status = "ok"
              /\ last'.op = "baseline" => ~before.baselineReady
              /\ last'.op = "scan" =>
                     /\ before.baselineReady
                     /\ after.status = "ok"
                     /\ after.baselineReady]_vars

\* ---- C27 ----
\* C27: baseline and scan never let an exception escape: every failure is
\* reported only through the site's status = failed, errorMessage and
\* failure summary, and the operation returns a result to its caller
\* instead of raising.
NoExceptionEscapes ==
    (last.op \in {"baseline", "scan"} /\ last.outcome # "ok") =>
        /\ Ending(impl, last.outcome) = "returned"
        /\ last.outcome = "failed" =>
               LET site == SiteOf(sites, last.id)
               IN  /\ site.status = "failed"
                   /\ site.errorMessage # ""
                   /\ site.lastResult.outcome = "failure"

\* ---- C28 ----
\* the places of the items of site id for the URL u in the item store
ItemsFor(stored, id, u) ==
    {k \in 1..Len(stored) : stored[k].siteId = id /\ stored[k].url = u}

\* the step is a successful scan of a site whose seen-set has been reset
\* (nothing is stored for the site) while the item store is kept
ScansAfterReset ==
    /\ last'.op = "scan"
    /\ last'.outcome = "ok"
    /\ last'.id \notin DOMAIN seen
    /\ items # <<>>

\* the URLs that scan meets and that have an item of the site in the store
MetWithItem ==
    {u \in Normalized(last'.urls) : ItemsFor(items, last'.id, u) # {}}

\* C28 as stated: if a site's seen-set has been reset while its stored items
\* are retained, a scan that meets a URL already present in the item store
\* adds no item for that URL and does not add that URL to the persisted
\* seen-set: the URL stays absent from the seen-set after the scan.
ResetScanLeavesUrlUnseen ==
    [][ScansAfterReset =>
          \A u \in MetWithItem :
              /\ ItemsFor(items', last'.id, u) = ItemsFor(items, last'.id, u)
              /\ hashUrl(u) \notin DOMAIN SeenOf(seen', last'.id)]_vars

\* C28, amended: such a scan adds no item for that URL; the api
\* implementation adds the URL to the persisted seen-set, the server
\* implementation, which saves the seen-set as loaded, does not.
ResetScanAddsNoItem ==
    [][ScansAfterReset =>
          \A u \in MetWithItem :
              /\ ItemsFor(items', last'.id, u) = ItemsFor(items, last'.id, u)
              /\ impl = "api" => hashUrl(u) \in DOMAIN SeenOf(seen', last'.id)
              /\ impl = "server" =>
                     hashUrl(u) \notin DOMAIN SeenOf(seen', last'.id)]_vars

\* a scan of a site with no stored seen-set has succeeded and appended
\* nothing (the last item of the store is not of that scan), and it met a
\* URL that has an item of the site
ResetScanMetItemReached ==
    /\ ScanSucceeded
    /\ last.emptyBefore
    /\ items # <<>>
    /\ ~(/\ items[Len(items)].siteId = last.id
         /\ items[Len(items)].url \in Range(last.newUrls))
    /\ \E u \in Range(last.newUrls) : ItemsFor(items, last.id, u) # {}

\* ---- C29 ----
\* C29: every NewItem is created with keywordFinal equal to keywordAuto, and
\* no later baseline, scan or discover changes the keywordAuto or the
\* keywordFinal of an item already in the store.
KeywordsKept ==
    [][last'.op \in {"baseline", "scan", "discover"} =>
          /\ Len(items') >= Len(items)
          /\ \A k \in 1..Len(items) :
                 /\ items'[k].keywordAuto = items[k].keywordAuto
                 /\ items'[k].keywordFinal = items[k].keywordFinal
          /\ \A k \in (Len(items) + 1)..Len(items') :
                 items'[k].keywordFinal = items'[k].keywordAuto]_vars

\* a scan has added an item to a store whose first item the reviewer had
\* given another keyword
ScanAfterReviewReached ==
    /\ ScanSucceeded
    /\ Len(items) >= 2
    /\ items[1].keywordFinal # items[1].keywordAuto
    /\ items[Len(items)].url \in Range(last.newUrls)
    /\ items[Len(items)].keywordFinal = items[Len(items)].keywordAuto

\* ---- C30 ----
ImportDone == probe.fn = "importSites" /\ probe.done

\* every site of the list before is in the list after
NoSiteRemoved(before, after) ==
    /\ Len(after) >= Len(before)
    /\ \A k \in 1..Len(before) : \E j \in 1..Len(after) :
           after[j].id = before[k].id

\* the import left the records of before as they were and added records as
\* they are on creation
ImportedFresh(before, after) ==
    /\ Len(after) >= Len(before)
    /\ \A k \in 1..Len(before) : after[k] = before[k]
    /\ \A k \in (Len(before) + 1)..Len(after) :
           /\ after[k].status = "unknown"
           /\ ~after[k].baselineReady
           /\ after[k].seenCount = 0
           /\ after[k].lastNewFound = 0
           /\ after[k].lastResult = NoResult

\* C30: import creates each site with status = unknown, baselineReady =
\* false, seenCount = 0, lastNewFound = 0 and lastResult = null and leaves
\* every existing site record unchanged, and no core operation (import,
\* discover, baseline, scan) removes a site from the stored site list.
ImportAddsFreshSites ==
    ImportDone =>
        LET lists == probe.output
        IN  /\ ImportedFresh(<<>>, lists[1])
            /\ ImportedFresh(lists[4], lists[5])
            /\ \A n \in 1..4 : NoSiteRemoved(lists[n], lists[n + 1])

\* the second import has added a site to a list whose first site had been
\* baselined and scanned
ImportBesideScannedReached ==
    /\ ImportDone
    /\ probe.output[4] # <<>>
    /\ probe.output[4][1].baselineReady
    /\ probe.output[4][1].lastNewFound > 0
    /\ Len(probe.output[5]) > Len(probe.output[4])
    /\ \E k \in 1..Len(probe.input.second) :
           normalizeDomain(probe.input.second[k]) = probe.output[4][1].domain

\* ---- C31 ----
FetchDone == probe.fn = "fetchSitemapUrls" /\ probe.done

\* the locations of the entries that have one, in document order
LocsOf(entries) == SelectSeq(entries, LAMBDA e : e # NoLoc)

\* a urlset document with one <url> entry or several has come back
UrlsetServed(resp) ==
    resp.net = "ok" /\ resp.root = "urlset" /\ resp.entries # <<>>

\* C31 as stated: fetchUrls returns the location strings of the urlset in
\* document order, for one url entry as for several, dropping the entries
\* without a location; it fails when the HTTP response is non-200 or when
\* the root element is not urlset.
FetchUrlsOn200 ==
    FetchDone =>
        LET resp == probe.input
        IN  /\ (UrlsetServed(resp) /\ resp.status = 200) =>
                   /\ probe.output.ok
                   /\ probe.output.urls = LocsOf(resp.entries)
            /\ (resp.net = "err" \/ resp.status # 200 \/ resp.root # "urlset")
                   => ~probe.output.ok

\* C31, amended: the same, the failure being for a response whose status is
\* not a 2xx status (a 2xx answer other than 200 is read as a 200 one is).
FetchUrlsOn2xx ==
    FetchDone =>
        LET resp == probe.input
            success == resp.net = "ok" /\ resp.status \in 200..299
        IN  /\ (UrlsetServed(resp) /\ success) =>
                   /\ probe.output.ok
                   /\ probe.output.urls = LocsOf(resp.entries)
            /\ (~success \/ resp.root # "urlset") => ~probe.output.ok

\* a urlset of several entries, one of them without a location, has been
\* fetched
MixedUrlsetFetched ==
    /\ FetchDone
    /\ probe.output.ok
    /\ Len(probe.input.entries) > 1
    /\ \E k \in 1..Len(probe.input.entries) : probe.input.entries[k] = NoLoc
    /\ Len(probe.output.urls) > 1

\* ---- C32 ----
\* C32: within a scan the seen-set is persisted and the new items are
\* appended only after the title fetch of every new URL has completed, and
\* the seen-set is persisted before the items are appended; no write to
\* either store happens while a title fetch of the scan is pending.
WritesAfterEnrichment ==
    /\ (run.savedSeen \/ run.appended) =>
           /\ run.pending = {}
           /\ DOMAIN run.titles = 1..Len(run.newUrls)
    /\ run.appended => run.savedSeen
    /\ ~run.savedSeen => seen = Conc0(impl).seen
    /\ ~run.appended => items = Conc0(impl).items

\* the server has appended the items of a scan whose title fetches were all
\* pending at once, some with a title and some without
EnrichedBatchAppended ==
    /\ impl = "server"
    /\ run.appended
    /\ Len(run.newUrls) > 1
    /\ Len(items) = Len(run.newUrls)
    /\ \E n, m \in DOMAIN run.titles : run.titles[n] # run.titles[m]

\* ---- C33 ----
\* the URLs of urls that have no item of site id in stored, in their order
NotYetStored(urls, stored, id) ==
    SelectSeq(urls, LAMBDA u : ItemsFor(stored, id, u) = {})

\* C33: a scan never modifies, removes or reorders the items that were in
\* the item store: after a scan the stored item list is the previous list
\* followed by the scan's not-yet-stored new items in sitemap order.
ScanAppendsOnly ==
    [][last'.op = "scan" =>
          /\ Len(items') >= Len(items)
          /\ SubSeq(items', 1, Len(items)) = items
          /\ UrlsOf(SubSeq(items', Len(items) + 1, Len(items')))
                 = IF last'.outcome = "ok"
                   THEN NotYetStored(last'.newUrls, items, last'.id)
                   ELSE <<>>
          /\ last'.outcome = "ok" =>
                 InSitemapOrder(last'.newUrls, last'.urls)]_vars

\* a scan over [A, B] has put an item for A behind the item for B that the
\* store held, and skipped B
AppendedBehindStoredReached ==
    /\ ScanSucceeded
    /\ last.emptyBefore
    /\ last.newUrls = NormalizedSeq(Prefix(2))
    /\ UrlsOf(items) = <<last.newUrls[2], last.newUrls[1]>>

\* ---- C34 ----
\* C34: in every state reached after a completed operation (import,
\* discover, baseline or scan, successful or failed, one at a time), the
\* seenCount of each site equals the number of entries of the site's
\* persisted seen-set.
SeenCountIsSeenSize ==
    (last.op \in {"import", "discover", "baseline", "scan"}
       /\ last.outcome # "crashed") =>
        \A k \in 1..Len(sites) :
            sites[k].seenCount = SizeOf(SeenOf(seen, sites[k].id))

\* ---- C35 ----
\* C35: whenever the status of a site is ok its errorMessage is empty: every
\* operation that sets status = ok (a successful discover, baseline or
\* scan) also clears the message an earlier failure left.
OkHasNoErrorMessage ==
    \A k \in 1..Len(sites) :
        sites[k].status = "ok" => sites[k].errorMessage = ""

\* ---- C36 ----
\* C36: once the baselineReady of a site is true it stays true: no discover,
\* baseline or scan on any site, successful or failed, run one at a time,
\* sets it back to false.
BaselineReadyStays ==
    [][\A k \in 1..Len(sites) :
          sites[k].baselineReady =>
              /\ k <= Len(sites')
              /\ sites'[k].id = sites[k].id
              /\ sites'[k].baselineReady]_vars

\* a baseline has failed on a site that was baselined before
FailedOnReadyReached ==
    /\ last.op = "baseline"
    /\ last.outcome = "failed"
    /\ SiteOf(sites, last.id).status = "failed"
    /\ SiteOf(sites, last.id).baselineReady

\* ---- C37 ----
\* C37: after a successful scan, lastNewFound and the newOrInsertedCount of
\* the summary equal the number of items the scan added to the item store,
\* also when some of its new URLs had items already and the append skipped
\* them.
CountsItemsAdded ==
    [][(last'.op = "scan" /\ last'.outcome = "ok") =>
          LET site == SiteOf(sites', last'.id)
              addedItems == Len(items') - Len(items)
          IN  /\ site.lastNewFound = addedItems
              /\ site.lastResult.newOrInsertedCount = addedItems]_vars

(***************************************************************************)
(* C38: discover (locate or its retry) changes only sitemapUrl, status and *)
(* errorMessage of the site it is given: the other fields of that record,  *)
(* every other site record, the seen-set and the item store are as they    *)
(* were before the discover.                                               *)
(***************************************************************************)
DiscoverChangesOnlyLocation ==
    [][last'.op = "discover" =>
          LET k == FindIndex(sites, last'.id)
          IN  /\ seen' = seen
              /\ items' = items
              /\ IF k = 0 THEN sites' = sites
                 ELSE sites' =
                          [sites EXCEPT
                              ![k].sitemapUrl = sites'[k].sitemapUrl,
                              ![k].status = sites'[k].status,
                              ![k].errorMessage = sites'[k].errorMessage]]_vars

\* a discover that changed the status of a scanned site which has items,
\* beside another site
DiscoverOnScannedReached ==
    /\ last.op = "discover"
    /\ last.outcome = "ok"
    /\ Len(sites) > 1
    /\ SiteOf(sites, last.id).baselineReady
    /\ SiteOf(sites, last.id).lastScanAt # Null
    /\ SiteOf(sites, last.id).seenCount > 0
    /\ SiteOf(sites, last.id).status # "ok"
    /\ \E k \in 1..Len(items) : items[k].siteId = last.id

(***************************************************************************)
(* C39: an update changes only the fields its body supplies (keywordFinal  *)
(* and/or reviewStatus) of the item with the given id: a field not         *)
(* supplied and keywordAuto are as before, every other item is unchanged,  *)
(* and an unknown id changes nothing and is reported as not found.         *)
(***************************************************************************)
UpdateChangesSuppliedOnly ==
    [][last'.op = "review" =>
          LET k == ItemIndex(items, last'.edit.item)
              body == last'.edit.body
              supplied(key, was) ==
                  IF key \in body.keys THEN body[key] ELSE was
          IN  IF k = 0
              THEN items' = items /\ last'.outcome = "notfound"
              ELSE /\ last'.outcome = "ok"
                   /\ items' =
                          [items EXCEPT
                              ![k].keywordFinal = supplied("keywordFinal", @),
                              ![k].reviewStatus =
                                  supplied("reviewStatus", @)]]_vars

(***************************************************************************)
(* C40: the URL of each stored item is recorded in the persisted seen-set  *)
(* of the item's site: when an operation has completed, every item it      *)
(* added to the store has its hash in the seen-set, so that no item exists *)
(* for a URL the seen-set does not record.                                 *)
(***************************************************************************)
ItemsAreSeen ==
    [][last'.op \in {"import", "discover", "baseline", "scan"} =>
          \A k \in (Len(items) + 1)..Len(items') :
              hashUrl(items'[k].url)
                  \in DOMAIN SeenOf(seen', items'[k].siteId)]_vars

====
